---- MODULE Spec2Model ----
(***************************************************************************)
(* Authentrics client: the transport client (BaseClient), the facade       *)
(* (AuthentricsClient), the authentication handler's login / probe /       *)
(* rollback, and the handler layer's requests, as a state machine.         *)
(*                                                                         *)
(* A caller is one thread of control using one facade client.  A login is  *)
(* split at its network boundaries (the POST to /api/auth/login, the probe *)
(* of /api/auth/user, the probe of /api/auth/admin): these are the only    *)
(* points where the call blocks.  Every other handler method is one        *)
(* request and is one action.  The remote server is the environment: the   *)
(* response of each request is drawn from Responses.                       *)
(***************************************************************************)
EXTENDS Integers, Sequences, FiniteSets, TLC

VARIABLES
    now,        \* datetime.now().timestamp()
    headers,    \* client -> session.headers (a dict: header name -> value)
    pc,         \* caller -> where the caller's current call is blocked
    frame,      \* caller -> locals of _validate_and_set_token in progress
    call,       \* caller -> the current / most recent call: its arguments,
                \*           and the Authorization header (h0) and the time (at)
                \*           when it was made
    issued,     \* caller -> the HTTP requests that call has issued, in order
    io,         \* caller -> environment variables read / prompts shown by it
    result,     \* caller -> how the most recent call ended
    verified,   \* client -> tokens for which a probe GET returned 2xx
    trusted,    \* client -> token of the last successful login, until a
                \*           later login touches the Authorization header
    debug,      \* __debug__: TRUE unless the interpreter runs with -O
    fs,         \* the local file system: path -> kind and content
    input,      \* arguments of the constructor / builder call under study
    output,     \* what that call returned or raised
    warnings,   \* what the most recent handler call passed to warnings.warn
    callback    \* the training callback (AuthentricsCallback): its fields

\* What the facade's calls never touch.
local == <<debug, fs, input, output, warnings, callback>>

vars == <<now, headers, pc, frame, call, issued, io, result, verified, trusted,
          debug, fs, input, output, warnings, callback>>

----------------------------------------------------------------------------
(* Bounds *)

\* The clock runs from 1 to MaxTime.
MaxTime == 2

\* A base URL is an origin followed by at most MaxUrlLen more characters.
MaxUrlLen == 3

\* The multipart builder is given at most MaxFields fields.
MaxFields == 2

\* A project's fileList holds at most MaxFiles checkpoints.
MaxFiles == 3

\* The trainer saves at most MaxStep times: global_step runs from 1 to MaxStep.
MaxStep == 2

----------------------------------------------------------------------------
(* Values *)

\* Python's None; also what dict.get returns for a missing key.
None == "None"

Clients == {"A", "B"}

\* Threads of control.  a1 and b1 each use their own facade client
\* (single-threaded use, spec §5); a2 is a second thread on a1's client and
\* runs only where concurrent use of one client is studied.
Callers == {"a1", "a2", "b1"}

\* One thread per client.
Owners == {"a1", "b1"}

clientOf(t) == IF t \in {"a1", "a2"} THEN "A" ELSE "B"

\* "T1" expires at time 1, "T2" outlives the clock, "Texp" is expired from
\* the start, "Tnoexp" decodes to a payload without an exp claim, "Tbad" is
\* not a JWT at all.
Tokens == {"T1", "T2", "Texp", "Tnoexp", "Tbad"}

Truthy(x) == x # None /\ x # ""

\* `a if a is not None else b` instead of `a or b`.
Or_NotNone(a, b) == IF a # None THEN a ELSE b

\* Python's `a or b`.
Or(a, b) == IF Truthy(a) THEN a ELSE b

\* dict.get(key): the value, or None when the key is absent.
Get(h, k) == IF k \in DOMAIN h THEN h[k] ELSE None

\* dict[key] = value
Set(h, k, v) == [x \in DOMAIN h \cup {k} |-> IF x = k THEN v ELSE h[x]]

\* dict.pop(key)
Pop(h, k) == [x \in DOMAIN h \ {k} |-> h[x]]

\* f"Bearer {token}"
Bearer(token) == "Bearer " \o token

----------------------------------------------------------------------------
(* The remote server and the HTTP stack *)

\* Status codes a response can carry back to the caller.
Statuses == {200, 304, 401, 403, 500}

\* requests exceptions that are not HTTPError.
TransportErrors == {"ConnectionError"}

\* What session.request can do: return a response, or raise.
Responses ==
    {[exc |-> "none", status |-> s] : s \in Statuses}
        \cup {[exc |-> e, status |-> 0] : e \in TransportErrors}

Pending == [exc |-> "pending", status |-> 0]

\* A status check that raises for everything outside 200..299.
raise_for_status_Non2xx(resp) == resp.status < 200 \/ resp.status > 299

\* Response.raise_for_status: HTTPError for 4xx and 5xx.
raise_for_status(resp) == resp.status >= 400 /\ resp.status < 600

Is2xx(resp) == resp.exc = "none" /\ resp.status >= 200 /\ resp.status <= 299

\* BaseClient._request as seen by its caller: "ok" (the response is
\* returned), "HTTPError", or the transport error session.request raised.
_request(resp) ==
    IF resp.exc # "none" THEN resp.exc
    ELSE IF raise_for_status(resp) THEN "HTTPError"
    ELSE "ok"

\* One session shared by every client (a class-level session).
Session_Shared(c) == "A"

\* BaseClient.__init__: every client owns the session it creates.
Session(c) == c

\* A request that leaves the session's Authorization header behind.
Wire_NoAuth(h, method, route) ==
    [method |-> method, route |-> route, auth |-> None, resp |-> Pending]

\* The request session.request puts on the wire when the session's default
\* headers are h: the defaults are merged into every request.
Wire(h, method, route) ==
    [method |-> method, route |-> route,
     auth |-> Get(h, "Authorization"), resp |-> Pending]

\* The same with a JSON body.
WireJson(h, method, route, json) ==
    [method |-> method, route |-> route,
     auth |-> Get(h, "Authorization"), resp |-> Pending, json |-> json]

\* A returned response together with its body (response.content.decode()).
WithBody(resp, body) == [exc |-> resp.exc, status |-> resp.status, body |-> body]

\* The log with the response of its last request filled in.
Answered(log, resp) == [log EXCEPT ![Len(log)].resp = resp]

----------------------------------------------------------------------------
(* Tokens *)

\* The payload jwt.decode returns for a well-formed token.
Payload(token) ==
    IF token = "T1" THEN [exp |-> 1]
    ELSE IF token = "T2" THEN [exp |-> 5]
    ELSE IF token = "Texp" THEN [exp |-> 0]
    ELSE [sub |-> 0]

\* decode_token: the payload, or ValueError for what jwt cannot decode.
decode_token(token) ==
    IF token \in {"T1", "T2", "Texp", "Tnoexp"}
    THEN [raised |-> FALSE, payload |-> Payload(token)]
    ELSE [raised |-> TRUE, payload |-> [sub |-> 0]]

\* An expiry check that never fires.
IsExpired_Never(payload, t) == FALSE

\* decoded["exp"] < datetime.now().timestamp()
IsExpired(payload, t) == payload.exp < t

----------------------------------------------------------------------------
(* Initial state: two facade clients just constructed, nobody logged in *)

NoCall == [op |-> "none", token |-> None, username |-> None,
           password |-> None, env |-> [k \in {} |-> None], h0 |-> None,
           at |-> 0]

NoFrame == [token |-> None, old_authorization |-> None]

NoIo == [env_read |-> {}, prompted |-> {}]

Returned == [exc |-> "none", msg |-> ""]

Raised(exc, msg) == [exc |-> exc, msg |-> msg]

\* No file exists at any path.
NoFiles == [p \in {} |-> None]

\* No constructor / builder call is under study.
NoArg == [op |-> "none"]

NotCalled == [exc |-> "not called"]

\* No training callback has been constructed.
NoCallback == [exc |-> "not constructed"]

\* AuthentricsClient.__init__: a fresh session tagged with the client name.
InitFacade ==
    /\ now = 1
    /\ headers = [s \in {Session(c) : c \in Clients} |->
                     [k \in {"clientName"} |-> "authrx-client"]]
    /\ pc = [t \in Callers |-> "idle"]
    /\ frame = [t \in Callers |-> NoFrame]
    /\ call = [t \in Callers |-> NoCall]
    /\ issued = [t \in Callers |-> <<>>]
    /\ io = [t \in Callers |-> NoIo]
    /\ result = [t \in Callers |-> Returned]
    /\ verified = [c \in Clients |-> {}]
    /\ trusted = [c \in Clients |-> None]

\* The facade in the default interpreter mode, nothing else going on.
Init ==
    /\ InitFacade
    /\ debug = TRUE
    /\ fs = NoFiles
    /\ input = NoArg
    /\ output = NotCalled
    /\ warnings = <<>>
    /\ callback = NoCallback

----------------------------------------------------------------------------
(* AuthenticationHandler.login *)

EnvVars == {"AAI_USERNAME", "AAI_PASSWORD"}

\* os.getenv(name): None when the variable is unset.
getenv(env, name) == env[name]

\* Lines 39-44 for one credential: `arg or os.getenv(NAME)`, then the prompt
\* when that is None.  env_read: whether os.getenv was evaluated at all.
ResolveCredential(arg, envval, typed) ==
    LET v == Or(arg, envval)
    IN  [value |-> IF v = None THEN typed ELSE v,
         prompted |-> v = None,
         env_read |-> ~Truthy(arg)]

Only(x, cond) == IF cond THEN {x} ELSE {}

\* `if token:` instead of `if token is not None:`.
TokenGiven_Truthy(token) == Truthy(token)

\* `if token is not None`
TokenGiven(token) == token # None

\* The call ends: it returns, or raises exc.
Finish(t, how) ==
    /\ pc' = [pc EXCEPT ![t] = "idle"]
    /\ frame' = [frame EXCEPT ![t] = NoFrame]
    /\ result' = [result EXCEPT ![t] = how]

\* _validate_and_set_token, lines 78-87: decode, check the expiry claim,
\* save the old header, install the new one and send the user probe.
\* log: the requests the call has issued so far.
ValidateAndSetToken(t, token, log) ==
    LET c == clientOf(t)
        s == Session(c)
        d == decode_token(token)
    IN  IF d.raised
        THEN /\ Finish(t, Raised("ValueError", "Invalid token: not decodable"))
             /\ issued' = [issued EXCEPT ![t] = log]
             /\ UNCHANGED <<headers, trusted>>
        ELSE IF "exp" \notin DOMAIN d.payload
        THEN /\ Finish(t, Raised("KeyError", "exp"))
             /\ issued' = [issued EXCEPT ![t] = log]
             /\ UNCHANGED <<headers, trusted>>
        ELSE IF IsExpired(d.payload, now)
        THEN /\ Finish(t, Raised("ValueError", "Token has expired"))
             /\ issued' = [issued EXCEPT ![t] = log]
             /\ UNCHANGED <<headers, trusted>>
        ELSE LET h == Set(headers[s], "Authorization", Bearer(token))
             IN  /\ frame' = [frame EXCEPT ![t] =
                        [token |-> token,
                         old_authorization |-> Get(headers[s], "Authorization")]]
                 /\ headers' = [headers EXCEPT ![s] = h]
                 /\ trusted' = [trusted EXCEPT ![c] = None]
                 /\ issued' = [issued EXCEPT ![t] =
                        Append(log, Wire(h, "GET", "/api/auth/user"))]
                 /\ pc' = [pc EXCEPT ![t] = "probe_user"]
                 /\ UNCHANGED result

\* login(username=, password=, token=) up to its first network wait.  env is
\* the process environment at the call, typed what the user would type at a
\* prompt.
Login(t, username, password, token, env, typed) ==
    /\ pc[t] = "idle"
    /\ call' = [call EXCEPT ![t] =
            [op |-> "login", token |-> token, username |-> username,
             password |-> password, env |-> env,
             h0 |-> Get(headers[Session(clientOf(t))], "Authorization"),
             at |-> now]]
    /\ IF TokenGiven(token)
       THEN /\ ValidateAndSetToken(t, token, <<>>)
            /\ io' = [io EXCEPT ![t] = NoIo]
       ELSE LET u == ResolveCredential(username, getenv(env, "AAI_USERNAME"), typed)
                p == ResolveCredential(password, getenv(env, "AAI_PASSWORD"), typed)
            IN  /\ io' = [io EXCEPT ![t] =
                        [env_read |-> Only("AAI_USERNAME", u.env_read)
                                        \cup Only("AAI_PASSWORD", p.env_read),
                         prompted |-> Only("username", u.prompted)
                                        \cup Only("password", p.prompted)]]
                /\ issued' = [issued EXCEPT ![t] =
                        <<WireJson(headers[Session(clientOf(t))], "POST", "/api/auth/login",
                                   [username |-> u.value, password |-> p.value])>>]
                /\ pc' = [pc EXCEPT ![t] = "login_post"]
                /\ UNCHANGED <<headers, frame, result, trusted>>
    /\ UNCHANGED <<now, verified>>
    /\ UNCHANGED local

\* A login that logs the session out when the credentials are rejected.
LoginPostResponse_Logout(t, resp, body) ==
    /\ pc[t] = "login_post"
    /\ IF _request(resp) = "ok"
       THEN ValidateAndSetToken(t, body, Answered(issued[t], WithBody(resp, body)))
       ELSE /\ Finish(t, Raised(_request(resp), ""))
            /\ issued' = [issued EXCEPT ![t] = Answered(issued[t], resp)]
            /\ headers' = [headers EXCEPT ![Session(clientOf(t))] =
                    Pop(@, "Authorization")]
            /\ trusted' = [trusted EXCEPT ![clientOf(t)] = None]
    /\ UNCHANGED <<now, call, io, verified>>
    /\ UNCHANGED local

\* The response to the POST of the credentials (lines 46-50): an error
\* propagates; otherwise the decoded body is the token to validate.
LoginPostResponse(t, resp, body) ==
    /\ pc[t] = "login_post"
    /\ IF _request(resp) = "ok"
       THEN ValidateAndSetToken(t, body, Answered(issued[t], WithBody(resp, body)))
       ELSE /\ Finish(t, Raised(_request(resp), ""))
            /\ issued' = [issued EXCEPT ![t] = Answered(issued[t], resp)]
            /\ UNCHANGED <<headers, trusted>>
    /\ UNCHANGED <<now, call, io, verified>>
    /\ UNCHANGED local

\* A probe whose success does not return from login.
AfterProbe_NoReturn(outcome) ==
    IF outcome \in {"ok", "HTTPError"} THEN "next" ELSE "raise"

\* What a probe's outcome means for the login: "return" on success, "next"
\* on requests.HTTPError (swallowed by `except requests.HTTPError: pass`),
\* "raise" for any other exception.
AfterProbe(outcome) ==
    IF outcome = "ok" THEN "return"
    ELSE IF outcome = "HTTPError" THEN "next"
    ELSE "raise"

\* The login returns with the token installed.
LoginReturns(t, resp) ==
    LET c == clientOf(t)
    IN  /\ Finish(t, Returned)
        /\ issued' = [issued EXCEPT ![t] = Answered(issued[t], resp)]
        /\ trusted' = [trusted EXCEPT ![c] = frame[t].token]
        /\ verified' = [verified EXCEPT ![c] =
                IF Is2xx(resp) THEN @ \cup {frame[t].token} ELSE @]
        /\ UNCHANGED headers

\* A probe raised something that is not requests.HTTPError: it propagates
\* out of login from inside the try block.
ProbeRaises(t, resp) ==
    /\ Finish(t, Raised(_request(resp), ""))
    /\ issued' = [issued EXCEPT ![t] = Answered(issued[t], resp)]
    /\ UNCHANGED <<headers, trusted, verified>>
    /\ UNCHANGED local

\* The response to GET /api/auth/user (lines 86-94).
ProbeUserResponse(t, resp) ==
    /\ pc[t] = "probe_user"
    /\ LET next == AfterProbe(_request(resp))
       IN  IF next = "return" THEN LoginReturns(t, resp)
           ELSE IF next = "raise" THEN ProbeRaises(t, resp)
           ELSE /\ issued' = [issued EXCEPT ![t] =
                       Append(Answered(issued[t], resp),
                              Wire(headers[Session(clientOf(t))], "GET", "/api/auth/admin"))]
                /\ pc' = [pc EXCEPT ![t] = "probe_admin"]
                /\ UNCHANGED <<headers, frame, result, trusted, verified>>
    /\ UNCHANGED <<now, call, io>>
    /\ UNCHANGED local

\* A rollback that always removes the header.
Rollback_Remove(h, old_authorization) == Pop(h, "Authorization")

\* A rollback that forgets to restore.
Rollback_Keep(h, old_authorization) == h

\* Lines 99-102: reinstall the old header, or remove the header.
Rollback(h, old_authorization) ==
    IF old_authorization # None
    THEN Set(h, "Authorization", old_authorization)
    ELSE Pop(h, "Authorization")

\* dict.pop(key) without a default raises KeyError when the key is not
\* there: the header this login installed has been removed by another
\* thread's rollback.
PopFails(h, old_authorization) ==
    old_authorization = None /\ "Authorization" \notin DOMAIN h

\* The classification by status that the code does not make.
ProbeFailure_ByStatus(user_status, admin_status) ==
    IF admin_status = 401
    THEN Raised("ValueError", "Token has expired")
    ELSE Raised("ValueError", "Invalid token")

\* The error login raises when both probes failed with an HTTP error
\* status (line 104); the statuses play no part.
ProbeFailure(user_status, admin_status) == Raised("ValueError", "Invalid token")

\* The response to GET /api/auth/admin (lines 93-104).
ProbeAdminResponse(t, resp) ==
    /\ pc[t] = "probe_admin"
    /\ LET next == AfterProbe(_request(resp))
           s == Session(clientOf(t))
       IN  IF next = "return" THEN LoginReturns(t, resp)
           ELSE IF next = "raise" THEN ProbeRaises(t, resp)
           ELSE /\ headers' = [headers EXCEPT ![s] =
                       Rollback(@, frame[t].old_authorization)]
                /\ Finish(t, IF PopFails(headers[s], frame[t].old_authorization)
                             THEN Raised("KeyError", "Authorization")
                             ELSE ProbeFailure(issued[t][Len(issued[t]) - 1].resp.status,
                                               resp.status))
                /\ issued' = [issued EXCEPT ![t] = Answered(issued[t], resp)]
                /\ UNCHANGED <<trusted, verified>>
    /\ UNCHANGED <<now, call, io>>
    /\ UNCHANGED local

----------------------------------------------------------------------------
(* Everything that is not login *)

\* A handler that logs the session out when the server answers 401.
OneRequest_LogoutOn401(t, op, req, resp) ==
    /\ pc[t] = "idle"
    /\ call' = [call EXCEPT ![t] =
            [NoCall EXCEPT !.op = op,
                           !.h0 = Get(headers[Session(clientOf(t))], "Authorization"),
                           !.at = now]]
    /\ issued' = [issued EXCEPT ![t] = <<[req EXCEPT !.resp = resp]>>]
    /\ io' = [io EXCEPT ![t] = NoIo]
    /\ result' = [result EXCEPT ![t] =
            IF _request(resp) = "ok" THEN Returned ELSE Raised(_request(resp), "")]
    /\ headers' = [headers EXCEPT ![Session(clientOf(t))] =
            IF resp.status = 401 THEN Pop(@, "Authorization") ELSE @]
    /\ UNCHANGED <<now, pc, frame, verified, trusted>>
    /\ UNCHANGED local

\* A call that is one request: the request goes out with the session's
\* headers, and the call returns or raises what _request raises.
OneRequest(t, op, req, resp) ==
    /\ pc[t] = "idle"
    /\ call' = [call EXCEPT ![t] =
            [NoCall EXCEPT !.op = op,
                           !.h0 = Get(headers[Session(clientOf(t))], "Authorization"),
                           !.at = now]]
    /\ issued' = [issued EXCEPT ![t] = <<[req EXCEPT !.resp = resp]>>]
    /\ io' = [io EXCEPT ![t] = NoIo]
    /\ result' = [result EXCEPT ![t] =
            IF _request(resp) = "ok" THEN Returned ELSE Raised(_request(resp), "")]
    /\ UNCHANGED <<now, headers, pc, frame, verified, trusted>>
    /\ UNCHANGED local

\* AuthenticationHandler.register: one POST, nothing else.
Register(t, resp) ==
    OneRequest(t, "register",
               Wire(headers[Session(clientOf(t))], "POST", "/api/auth/register"), resp)

\* One method of each handler the facade exposes (and of the result
\* handler), with the request it issues.
HandlerOps ==
    { [op |-> "project.get_projects", method |-> "GET", route |-> "/project"],
      [op |-> "checkpoint.delete_checkpoint", method |-> "DELETE", route |-> "/project/file"],
      [op |-> "user.update_user", method |-> "PATCH", route |-> "/api/auth/user"],
      [op |-> "admin.get_all_admins", method |-> "GET", route |-> "/api/auth/admin"],
      [op |-> "membership.get_project_members", method |-> "GET", route |-> "/project/{id}/user"],
      [op |-> "static.static_analysis", method |-> "POST", route |-> "/static_analysis"],
      [op |-> "dynamic.batch_comparative_analysis", method |-> "POST",
       route |-> "/dynamic_analysis/comparative/batch"],
      [op |-> "result.getAnalysisResults", method |-> "GET",
       route |-> "/project/{id}/analysis/result"] }

\* A handler method: BaseHandler's verb method hands the request to the
\* client's verb method, which hands it to _request.
HandlerCall(t, o, resp) ==
    OneRequest(t, o.op, Wire(headers[Session(clientOf(t))], o.method, o.route), resp)

\* BaseClient.get / post / delete / put / patch, each with the HTTP method
\* it passes to _request.
Verbs ==
    { [op |-> "client.get", method |-> "GET"],
      [op |-> "client.post", method |-> "POST"],
      [op |-> "client.delete", method |-> "DELETE"],
      [op |-> "client.put", method |-> "PUT"],
      [op |-> "client.patch", method |-> "PATCH"] }

\* A route passed straight to a verb method.
VerbRoutes == {"/project"}

\* What session.request can hand to a verb method: the responses above and
\* statuses at the edges of the 1xx .. 5xx classes.
VerbResponses ==
    Responses \cup {[exc |-> "none", status |-> s] :
                        s \in {100, 204, 299, 300, 399, 400, 599}}

\* A verb method that calls _request a second time when the first attempt
\* failed.
VerbCall_Retry(t, v, route, resp) ==
    /\ pc[t] = "idle"
    /\ call' = [call EXCEPT ![t] =
            [NoCall EXCEPT !.op = v.op,
                           !.h0 = Get(headers[Session(clientOf(t))], "Authorization"),
                           !.at = now]]
    /\ issued' = [issued EXCEPT ![t] =
            LET req == [Wire(headers[Session(clientOf(t))], v.method, route)
                            EXCEPT !.resp = resp]
            IN  IF _request(resp) = "ok" THEN <<req>> ELSE <<req, req>>]
    /\ io' = [io EXCEPT ![t] = NoIo]
    /\ result' = [result EXCEPT ![t] =
            IF _request(resp) = "ok" THEN Returned ELSE Raised(_request(resp), "")]
    /\ UNCHANGED <<now, headers, pc, frame, verified, trusted>>
    /\ UNCHANGED local

\* A verb method called directly on the client: `return self._request(
\* METHOD, route, **kwargs)`.
VerbCall(t, v, route, resp) ==
    OneRequest(t, v.op, Wire(headers[Session(clientOf(t))], v.method, route), resp)

\* Time passes.
Tick ==
    /\ now < MaxTime
    /\ now' = now + 1
    /\ UNCHANGED <<headers, pc, frame, call, issued, io, result, verified, trusted>>
    /\ UNCHANGED local

----------------------------------------------------------------------------
(* Inputs and the specifications *)

\* The process environment: each variable unset (None), empty, or set.
Envs == [EnvVars -> {None, "", "env"}]

EnvUnset == [k \in EnvVars |-> None]

EnvSet == [k \in EnvVars |-> "env"]

\* What the user types when prompted.
Typed == "typed"

LoginArgs(username, password, token, env) ==
    [username |-> username, password |-> password, token |-> token, env |-> env]

\* login(token=k) for every token string, the empty one included; with and
\* without credentials passed along; and login without a token with the
\* credentials from the arguments, the environment or the prompt.
Logins ==
    {LoginArgs(None, None, k, EnvUnset) : k \in Tokens \cup {""}}
        \cup {LoginArgs("arg", "arg", "T2", EnvSet),
              LoginArgs("arg", "arg", None, EnvUnset),
              LoginArgs(None, None, None, EnvSet),
              LoginArgs("arg", None, None, EnvUnset)}

\* One facade client used by one thread.
Next ==
    \/ \E a \in Logins : Login("a1", a.username, a.password, a.token, a.env, Typed)
    \/ \E r \in Responses, b \in Tokens : LoginPostResponse("a1", r, b)
    \/ \E r \in Responses : ProbeUserResponse("a1", r)
    \/ \E r \in Responses : ProbeAdminResponse("a1", r)
    \/ \E r \in Responses : Register("a1", r)
    \/ \E o \in HandlerOps, r \in Responses : HandlerCall("a1", o, r)
    \/ \E v \in Verbs, p \in VerbRoutes, r \in VerbResponses : VerbCall("a1", v, p, r)
    \/ Tick

Spec == Init /\ [][Next]_vars

\* username= / password= : omitted, empty, or a value.
CredArgs == {None, "", "arg"}

\* The server as far as credential resolution needs it.
CredResponses == {r \in Responses : r.status \in {200, 401}}

\* One client, login without a token with every combination of arguments
\* and environment.
NextCred ==
    \/ \E u \in CredArgs, p \in CredArgs, e \in Envs : Login("a1", u, p, None, e, Typed)
    \/ \E r \in CredResponses, b \in {"T2", "Texp"} : LoginPostResponse("a1", r, b)
    \/ \E r \in CredResponses : ProbeUserResponse("a1", r)
    \/ \E r \in CredResponses : ProbeAdminResponse("a1", r)
    \/ Tick

SpecCred == Init /\ [][NextCred]_vars

\* The token each client's user holds.
TokenFor(t) == IF t = "a1" THEN "T1" ELSE "T2"

TwoOps == {o \in HandlerOps : o.op = "static.static_analysis"}

\* The server as far as two clients need it: success, rejection, and a
\* connection failure.
TwoResponses == {r \in Responses : r.status \in {0, 200, 403}}

\* Two facade clients, each used by its own thread, interleaved at every
\* network wait.
NextTwo ==
    \/ \E t \in Owners : Login(t, None, None, TokenFor(t), EnvUnset, Typed)
    \/ \E t \in Owners : Login(t, "arg", "arg", None, EnvUnset, Typed)
    \/ \E t \in Owners, r \in TwoResponses : LoginPostResponse(t, r, TokenFor(t))
    \/ \E t \in Owners, r \in TwoResponses : ProbeUserResponse(t, r)
    \/ \E t \in Owners, r \in TwoResponses : ProbeAdminResponse(t, r)
    \/ \E t \in Owners, r \in TwoResponses : Register(t, r)
    \/ \E t \in Owners, o \in TwoOps, r \in TwoResponses : HandlerCall(t, o, r)
    \/ Tick

SpecTwo == Init /\ [][NextTwo]_vars

----------------------------------------------------------------------------
(* Observations on a caller's current / most recent call *)

Auth(c) == Get(headers[Session(c)], "Authorization")

ProbeRoutes == {"/api/auth/user", "/api/auth/admin"}

IsProbe(req) == req.method = "GET" /\ req.route \in ProbeRoutes

IsLoginPost(req) == req.method = "POST" /\ req.route = "/api/auth/login"

\* The probe requests of a login call, in the order issued.
ProbesOf(t) == SelectSeq(issued[t], IsProbe)

\* A response that carries an HTTP error status (4xx, 5xx).
Rejected(resp) == resp.exc = "none" /\ resp.status >= 400 /\ resp.status <= 599

\* A finished login(token=...) call.
TokenLoginDone(t) ==
    pc[t] = "idle" /\ call[t].op = "login" /\ call[t].token # None

\* Both probes were issued and both were answered with an HTTP error status.
BothProbesRejected(t) ==
    /\ Len(ProbesOf(t)) = 2
    /\ \A i \in 1..2 : Rejected(ProbesOf(t)[i].resp)

\* The token passed to login carried an exp claim in the past at the call.
ExpiredAtCall(t) ==
    /\ call[t].token \in {"T1", "T2", "Texp"}
    /\ Payload(call[t].token).exp < call[t].at

----------------------------------------------------------------------------
(* Claims *)

\* C1: a login(token=T) whose two probes are both answered with an HTTP
\* error status, or whose token is already expired by its exp claim, ends
\* with the session's Authorization header exactly as it was before the call
\* (absent if it was absent).
C1_RollbackRestoresH0 ==
    \A t \in Callers :
        (TokenLoginDone(t) /\ (BothProbesRejected(t) \/ ExpiredAtCall(t)))
            => Auth(clientOf(t)) = call[t].h0

\* C1 witness: a token login failed both probes while another token's
\* header was installed before the call.
C1_Witness ==
    \E t \in Callers :
        /\ TokenLoginDone(t) /\ BothProbesRejected(t)
        /\ call[t].h0 = Bearer("T1") /\ call[t].token = "T2"
        /\ result[t].exc = "ValueError"

\* C2 (as claimed): whenever no login is in progress on a client, its
\* Authorization header is absent or 'Bearer T' for a token T for which a
\* probe GET returned 2xx.
C2_InstalledTokenVerified ==
    \A c \in Clients :
        (\A t \in Callers : clientOf(t) = c => pc[t] = "idle")
            => \/ Auth(c) = None
               \/ \E T \in verified[c] : Auth(c) = Bearer(T)

\* The requests a caller puts on the wire in a step: all of a call that
\* starts in the step, or the request a login in progress appends.
SentInStep(t) ==
    IF pc[t] = "idle"
    THEN IF <<call[t], issued[t], result[t]>>' # <<call[t], issued[t], result[t]>>
         THEN issued'[t]
         ELSE <<>>
    ELSE IF Len(issued'[t]) > Len(issued[t])
         THEN <<issued'[t][Len(issued'[t])]>>
         ELSE <<>>

\* C3: once a login with token T has succeeded, every request sent through
\* the client carries 'Authorization: Bearer T', whatever its outcome, for
\* as long as no later login has touched the header.
C3_RequestsCarryToken ==
    [][\A t \in Callers :
          LET c == clientOf(t)
          IN  (trusted[c] # None /\ trusted'[c] = trusted[c])
                  => \A i \in 1..Len(SentInStep(t)) :
                         SentInStep(t)[i].auth = Bearer(trusted[c])]_vars

\* C3 witness: after a successful login with T2 a handler request went out
\* with 'Bearer T2' and failed, and the header is still the same.
C3_Witness ==
    \E t \in Callers :
        /\ trusted[clientOf(t)] = "T2"
        /\ pc[t] = "idle" /\ call[t].op = "static.static_analysis"
        /\ issued[t][1].auth = Bearer("T2")
        /\ result[t].exc = "HTTPError"
        /\ Auth(clientOf(t)) = Bearer("T2")

\* A finished login call of either kind.
LoginDone(t) == pc[t] = "idle" /\ call[t].op = "login"

AllProbesAnswered(t, status) ==
    BothProbesRejected(t) /\ \A i \in 1..2 : ProbesOf(t)[i].resp.status = status

\* C4 (as claimed): probes rejected with 403 make the login fail with the
\* invalid-token error, probes rejected with 401 with the expired-token
\* error.
C4_ClassifiedByStatus ==
    \A t \in Callers :
        LoginDone(t) =>
            /\ AllProbesAnswered(t, 403) => result[t] = Raised("ValueError", "Invalid token")
            /\ AllProbesAnswered(t, 401) => result[t] = Raised("ValueError", "Token has expired")

\* C4 (amended): when both probes are answered with an HTTP error status,
\* whatever the statuses, the login fails with the one error
\* ValueError("Invalid token"); the expired-token error comes only from the
\* exp claim, before any probe; and a transport error that is not an HTTP
\* status error propagates unchanged.
C4_OneErrorForEveryStatus ==
    \A t \in Callers :
        LoginDone(t) =>
            /\ BothProbesRejected(t) => result[t] = Raised("ValueError", "Invalid token")
            /\ result[t] = Raised("ValueError", "Token has expired") => ProbesOf(t) = <<>>
            /\ (issued[t] # <<>> /\ issued[t][Len(issued[t])].resp.exc \in TransportErrors)
                   => result[t] = Raised(issued[t][Len(issued[t])].resp.exc, "")

\* C4 witness: both probes were answered 401 and the login failed with
\* "Invalid token".
C4_Witness ==
    \E t \in Callers :
        /\ LoginDone(t) /\ AllProbesAnswered(t, 401)
        /\ result[t] = Raised("ValueError", "Invalid token")

\* C5: a login with a token whose exp claim is already in the past fails
\* with the expired-token error and has issued no HTTP request; and no login
\* that fails with that error has issued a probe.
C5_ExpiredFailsWithoutRequest ==
    \A t \in Callers :
        /\ (call[t].op = "login" /\ call[t].token # None /\ ExpiredAtCall(t))
               => /\ pc[t] = "idle"
                  /\ result[t] = Raised("ValueError", "Token has expired")
                  /\ issued[t] = <<>>
        /\ (LoginDone(t) /\ result[t] = Raised("ValueError", "Token has expired"))
               => \A i \in 1..Len(issued[t]) : ~IsProbe(issued[t][i])

\* C5 witness: T1, installed by an earlier login, is passed to login again
\* after it has expired.
C5_Witness ==
    \E t \in Callers :
        /\ TokenLoginDone(t) /\ ExpiredAtCall(t)
        /\ call[t].token = "T1" /\ call[t].h0 = Bearer("T1")
        /\ result[t] = Raised("ValueError", "Token has expired")
        /\ issued[t] = <<>>

\* The token a login call validates: the token argument, or the body of
\* the answer to the POST of the credentials.
TokenOf(t) ==
    IF call[t].token # None THEN call[t].token ELSE issued[t][1].resp.body

\* C6: the user probe is always the first probe; the admin probe is issued
\* only after the user probe was answered with an HTTP error status; a 2xx
\* answer to either probe ends the login successfully with the token
\* installed and no further probe; a login issues at most two probes.
C6_UserThenAdmin ==
    \A t \in Callers :
        call[t].op = "login" =>
            LET P == ProbesOf(t)
            IN  /\ Len(P) <= 2
                /\ Len(P) >= 1 => P[1].route = "/api/auth/user"
                /\ Len(P) = 2 => P[2].route = "/api/auth/admin" /\ Rejected(P[1].resp)
                /\ \A i \in 1..Len(P) :
                       Is2xx(P[i].resp) =>
                           /\ i = Len(P)
                           /\ pc[t] = "idle"
                           /\ result[t] = Returned
                           /\ Auth(clientOf(t)) = Bearer(TokenOf(t))

\* C6 witness: the user probe was rejected and the admin probe answered 2xx,
\* so the login succeeded on the fallback.
C6_Witness ==
    \E t \in Callers :
        /\ LoginDone(t) /\ Len(ProbesOf(t)) = 2
        /\ Rejected(ProbesOf(t)[1].resp) /\ Is2xx(ProbesOf(t)[2].resp)
        /\ result[t] = Returned
        /\ Auth(clientOf(t)) = Bearer(TokenOf(t))

\* C7: a login given a token never POSTs to /api/auth/login, reads no
\* credential environment variable and shows no prompt, whatever credentials
\* are passed with it; a login without a token POSTs the credentials first,
\* exactly once, and every probe it then issues carries the decoded body of
\* the answer as its bearer token.
C7_TokenSkipsCredentials ==
    \A t \in Callers :
        call[t].op = "login" =>
            /\ call[t].token # None =>
                   /\ io[t] = NoIo
                   /\ \A i \in 1..Len(issued[t]) : ~IsLoginPost(issued[t][i])
            /\ call[t].token = None =>
                   /\ Len(issued[t]) >= 1 /\ IsLoginPost(issued[t][1])
                   /\ \A i \in 2..Len(issued[t]) :
                          /\ IsProbe(issued[t][i])
                          /\ issued[t][i].auth = Bearer(issued[t][1].resp.body)

\* C7 witness: login(token="T2", username="arg", password="arg") with both
\* environment variables set went straight to the probe and succeeded.
C7_Witness ==
    \E t \in Callers :
        /\ LoginDone(t) /\ call[t].token = "T2" /\ call[t].username = "arg"
        /\ call[t].env = EnvSet
        /\ Len(issued[t]) = 1 /\ IsProbe(issued[t][1])
        /\ result[t] = Returned

\* C9: a step of register or of any handler method leaves the session's
\* Authorization header as it was, whether the request succeeds or fails.
C9_OnlyLoginChangesHeader ==
    [][\A t \in Owners :
          call'[t].op # "login" => Auth(clientOf(t))' = Auth(clientOf(t))]_vars

\* C9 witness: with 'Bearer T2' installed, register was answered 401 and the
\* header is still 'Bearer T2'.
C9_Witness ==
    \E t \in Callers :
        /\ pc[t] = "idle" /\ call[t].op = "register"
        /\ issued[t][1].resp.status = 401 /\ result[t].exc = "HTTPError"
        /\ call[t].h0 = Bearer("T2")
        /\ Auth(clientOf(t)) = Bearer("T2")

CredFields == {"username", "password"}

EnvVarOf(f) == IF f = "username" THEN "AAI_USERNAME" ELSE "AAI_PASSWORD"

\* A login without a token, from the POST of the credentials on.
CredentialLogin(t) == call[t].op = "login" /\ call[t].token = None

\* A value that is neither missing nor the empty string.
Supplies(x) == x # None /\ x # ""

\* C8 (as claimed): each credential is the argument when the argument
\* supplies a value, else the environment variable when it supplies one,
\* else what is typed at the prompt; the empty string supplies nothing, so
\* the prompt is shown exactly when neither supplies a value.
C8_ArgThenEnvThenPrompt ==
    \A t \in Callers :
        CredentialLogin(t) =>
            \A f \in CredFields :
                LET arg == call[t][f]
                    envval == call[t].env[EnvVarOf(f)]
                IN  /\ issued[t][1].json[f] =
                           IF Supplies(arg) THEN arg
                           ELSE IF Supplies(envval) THEN envval
                           ELSE Typed
                    /\ f \in io[t].prompted <=> (~Supplies(arg) /\ ~Supplies(envval))

\* C8 (amended): each credential is the argument when it is a non-empty
\* string, else the environment variable's value when the variable is set,
\* the empty string included, else what is typed at the prompt; the prompt
\* is shown exactly when the argument is missing or empty and the variable
\* is unset.
C8_NonEmptyArgThenSetEnvThenPrompt ==
    \A t \in Callers :
        CredentialLogin(t) =>
            \A f \in CredFields :
                LET arg == call[t][f]
                    envval == call[t].env[EnvVarOf(f)]
                IN  /\ issued[t][1].json[f] =
                           IF arg \notin {None, ""} THEN arg
                           ELSE IF envval # None THEN envval
                           ELSE Typed
                    /\ f \in io[t].prompted <=> (arg \in {None, ""} /\ envval = None)

\* C8 witness: username="" with AAI_USERNAME unset was prompted for, while
\* the omitted password with AAI_PASSWORD="" was posted as "" unprompted.
C8_Witness ==
    \E t \in Callers :
        /\ CredentialLogin(t)
        /\ call[t].username = "" /\ call[t].env["AAI_USERNAME"] = None
        /\ call[t].password = None /\ call[t].env["AAI_PASSWORD"] = ""
        /\ io[t].prompted = {"username"}
        /\ issued[t][1].json = [username |-> Typed, password |-> ""]

\* The caller took a step.
Stepped(t) ==
    <<pc[t], frame[t], call[t], issued[t], io[t], result[t]>>'
        # <<pc[t], frame[t], call[t], issued[t], io[t], result[t]>>

\* C10: a step of a call on one client leaves every other client's headers
\* and the requests of the other client's calls as they were; and a client's
\* header and the requests it sends never carry another client's token.
C10_ClientsIndependent ==
    /\ [][\A t \in Owners :
             Stepped(t) =>
                 \A u \in Owners :
                     clientOf(u) # clientOf(t) =>
                         /\ headers'[Session(clientOf(u))] = headers[Session(clientOf(u))]
                         /\ issued'[u] = issued[u]]_vars
    /\ [](\A t \in Owners :
             /\ Auth(clientOf(t)) \in {None, Bearer(TokenFor(t))}
             /\ \A i \in 1..Len(issued[t]) :
                    issued[t][i].auth \in {None, Bearer(TokenFor(t))})

\* C10 witness: client A's login was rolled back to no header while client
\* B, logged in with T2, sent a handler request carrying 'Bearer T2'.
C10_Witness ==
    /\ pc["a1"] = "idle" /\ call["a1"].op = "login" /\ BothProbesRejected("a1")
    /\ Auth("A") = None
    /\ pc["b1"] = "idle" /\ call["b1"].op = "static.static_analysis"
    /\ issued["b1"][1].auth = Bearer("T2")
    /\ Auth("B") = Bearer("T2")

----------------------------------------------------------------------------
(* The transport client's verb methods *)

VerbOps == {v.op : v \in Verbs}

\* A finished call of a verb method.
VerbDone(t) == pc[t] = "idle" /\ call[t].op \in VerbOps

\* The response a finished one-request call got.
RespOf(t) == issued[t][Len(issued[t])].resp

\* A request that failed: session.request raised, or the status check did.
Failed(req) == req.resp.exc # "pending" /\ _request(req.resp) # "ok"

C12_OneRequestNoRetry ==
    \A t \in Callers :
        /\ VerbDone(t)
            => /\ Len(issued[t]) = 1
               /\ \E v \in Verbs : v.op = call[t].op /\ v.method = issued[t][1].method
               /\ issued[t][1].route \in VerbRoutes
               /\ Failed(issued[t][1]) => result[t] = Raised(_request(RespOf(t)), "")
        /\ \A i \in 1..(Len(issued[t]) - 1) :
                Failed(issued[t][i])
                    => /\ call[t].op = "login"
                       /\ issued[t][i].method = "GET"
                       /\ issued[t][i].route = "/api/auth/user"
                       /\ issued[t][i + 1].method = "GET"
                       /\ issued[t][i + 1].route = "/api/auth/admin"

\* C12 witness: a delete whose only request failed on the connection raised
\* that ConnectionError to its caller.
C12_Witness ==
    \E t \in Callers :
        /\ VerbDone(t) /\ call[t].op = "client.delete"
        /\ Len(issued[t]) = 1
        /\ RespOf(t).exc = "ConnectionError"
        /\ result[t] = Raised("ConnectionError", "")

----------------------------------------------------------------------------
(* BaseClient.__init__: the base URL *)

\* All sequences over S of length at most n.
SeqsUpTo(S, n) == UNION {[1..k -> S] : k \in 0..n}

\* Scheme and authority, as one token: "https://api.example.com".
Origin == "https://api.example.com"

\* The characters that decide how the rest of a URL splits.
UrlChars == {"/", "a", "?", "#"}

\* A URL is the origin followed by characters: <<Origin, "/", "a">> is
\* "https://api.example.com/a".  What follows the origin starts with '/',
\* '?' or '#' (anything else would still be the authority).
Urls ==
    {<<Origin>> \o tl : tl \in {x \in SeqsUpTo(UrlChars, MaxUrlLen) :
                                    x = <<>> \/ x[1] # "a"}}

\* None, among strings that are sequences of characters.
Absent == <<None>>

\* The position of the first element of s that is in cs, Len(s) + 1 if none.
Find(s, cs) ==
    IF \E i \in 1..Len(s) : s[i] \in cs
    THEN CHOOSE i \in 1..Len(s) : s[i] \in cs /\ \A j \in 1..(i - 1) : s[j] \notin cs
    ELSE Len(s) + 1

\* urllib3's parse_url on scheme://authority[path][?query][#fragment]: the
\* path runs to the first '?' or '#', the query from a '?' to the first
\* '#', the fragment from the first '#' to the end.  A part that is not
\* there is None, except that an empty path is "" when a query or a
\* fragment is there.
parse_url(url) ==
    LET t == SubSeq(url, 2, Len(url))
        q == Find(t, {"?", "#"})
        rawpath == SubSeq(t, 1, q - 1)
        rest == SubSeq(t, q, Len(t))
        h == Find(rest, {"#"})
        query == IF rest # <<>> /\ rest[1] = "?" THEN SubSeq(rest, 2, h - 1) ELSE Absent
        fragment == IF h <= Len(rest) THEN SubSeq(rest, h + 1, Len(rest)) ELSE Absent
        path == IF rawpath # <<>> THEN rawpath
                ELSE IF query # Absent \/ fragment # Absent THEN <<>>
                ELSE Absent
    IN  [origin |-> url[1], path |-> path, query |-> query, fragment |-> fragment]

\* Url.url: the parts put back together.
Url_url(u) ==
    <<u.origin>>
        \o (IF u.path # Absent THEN u.path ELSE <<>>)
        \o (IF u.query # Absent THEN <<"?">> \o u.query ELSE <<>>)
        \o (IF u.fragment # Absent THEN <<"#">> \o u.fragment ELSE <<>>)

\* str.rstrip(c): without any trailing c.
RECURSIVE rstrip(_, _)
rstrip(s, c) ==
    IF s # <<>> /\ s[Len(s)] = c THEN rstrip(SubSeq(s, 1, Len(s) - 1), c) ELSE s

\* `assert cond`: raise AssertionError if __debug__ and not cond.
AssertFails(dbg, cond) == dbg /\ ~cond

\* A constructed client, as far as its base URL goes.
Client(base_url) == [exc |-> "none", base_url |-> base_url]

\* BaseClient.__init__(base_url): parse, the three asserts, and the stored
\* base URL.
BaseClient_init(base_url, dbg) ==
    LET parsed_url == parse_url(base_url)
    IN  IF \/ AssertFails(dbg, parsed_url.path = Absent \/ parsed_url.path = <<"/">>)
           \/ AssertFails(dbg, parsed_url.query = Absent)
           \/ AssertFails(dbg, parsed_url.fragment = Absent)
        THEN Raised("AssertionError", "")
        ELSE Client(rstrip(Url_url(parsed_url), "/"))

\* The constructor call under study runs.
Construct ==
    /\ input.op = "BaseClient"
    /\ output = NotCalled
    /\ output' = BaseClient_init(input.base_url, debug)
    /\ UNCHANGED <<now, headers, pc, frame, call, issued, io, result, verified, trusted>>
    /\ UNCHANGED <<debug, fs, input, warnings, callback>>

\* A constructor call with each URL, in each interpreter mode.
InitUrl ==
    /\ InitFacade
    /\ debug \in BOOLEAN
    /\ fs = NoFiles
    /\ input \in {[op |-> "BaseClient", base_url |-> u] : u \in Urls}
    /\ output = NotCalled
    /\ warnings = <<>>
    /\ callback = NoCallback

NextUrl == Construct

SpecUrl == InitUrl /\ [][NextUrl]_vars

\* The constructor call has run.
Constructed == input.op = "BaseClient" /\ output # NotCalled

\* The URL with one trailing slash more, or one less.
OtherSlash(url) ==
    IF url[Len(url)] = "/" THEN SubSeq(url, 1, Len(url) - 1) ELSE url \o <<"/">>

\* The URL has something after the origin other than a single "/": a
\* non-root path, a query or a fragment.
BeyondRoot(url) == SubSeq(url, 2, Len(url)) \notin {<<>>, <<"/">>}

\* C13 (as claimed): a URL and the same URL with a single trailing slash
\* more or less give the same stored base URL, which has no trailing slash;
\* and every URL with a non-root path, a query or a fragment makes the
\* constructor raise, so that no client is produced.
C13_SlashInsensitiveAndStrict ==
    Constructed =>
        /\ output.exc = "none" =>
              /\ output = BaseClient_init(OtherSlash(input.base_url), debug)
              /\ output.base_url[Len(output.base_url)] # "/"
        /\ BeyondRoot(input.base_url) => output.exc = "AssertionError"

----------------------------------------------------------------------------
(* types.generate_multipart_json: Python values *)

\* A Python value: its type, its literal text (scalars), its elements
\* (list, tuple; for a dict: key, value, key, value, ...).
Val(kind, text, items) == [kind |-> kind, text |-> text, items |-> items]

Str(text) == Val("str", text, <<>>)

\* One value of each scalar type the builder accepts.
Scalars ==
    { Str("x"), Val("bytes", "x", <<>>), Val("bool", "True", <<>>),
      Val("int", "7", <<>>), Val("float", "0.5", <<>>) }

\* [7, "x"], (True,), [] and the dicts {"k": True} and {}.
Containers ==
    { Val("list", "", <<Val("int", "7", <<>>), Str("x")>>),
      Val("list", "", <<>>),
      Val("tuple", "", <<Val("bool", "True", <<>>)>>),
      Val("dict", "", <<Str("k"), Val("bool", "True", <<>>)>>),
      Val("dict", "", <<>>) }

\* None and a value of some other class.
Others == { Val("NoneType", "None", <<>>), Val("object", "<object>", <<>>) }

PyValues == Scalars \cup Containers \cup Others

\* str(value) for a scalar: bytes show as a bytes literal.
str(v) == IF v.kind = "bytes" THEN "b'" \o v.text \o "'" ELSE v.text

\* sep.join(parts)
RECURSIVE Join(_, _)
Join(parts, sep) ==
    IF parts = <<>> THEN ""
    ELSE IF Len(parts) = 1 THEN parts[1]
    ELSE parts[1] \o sep \o Join(Tail(parts), sep)

\* json.dumps of a scalar: strings quoted, True as true.
dumps_scalar(v) ==
    IF v.kind = "str" THEN "\"" \o v.text \o "\""
    ELSE IF v.kind = "bool" THEN (IF v.text = "True" THEN "true" ELSE "false")
    ELSE v.text

\* json.dumps of a dict {k1: v1, ...}.
json_dumps(v) ==
    "{" \o Join([i \in 1..(Len(v.items) \div 2) |->
                    dumps_scalar(v.items[2 * i - 1]) \o ": " \o dumps_scalar(v.items[2 * i])],
                ", ") \o "}"

\* f"{type(value)}"
TypeName(v) == "<class '" \o v.kind \o "'>"

----------------------------------------------------------------------------
(* types.generate_multipart_json: the builder *)

\* A path is its components: <<"models", "ckpt.onnx">> is models/ckpt.onnx.
CkptPath == <<"models", "ckpt.onnx">>

DirPath == <<"models">>

MissingPath == <<"models", "gone.onnx">>

\* What is on disk while the builder runs.
Disk ==
    [p \in {CkptPath, DirPath} |->
        IF p = DirPath THEN [kind |-> "dir", content |-> ""]
        ELSE [kind |-> "file", content |-> "weights"]]

is_dir(disk, p) == p \in DOMAIN disk /\ disk[p].kind = "dir"

is_file(disk, p) == p \in DOMAIN disk /\ disk[p].kind = "file"

exists(disk, p) == p \in DOMAIN disk

\* Path.name
Name(p) == p[Len(p)]

\* str(path)
PathStr(p) == Join(p, "/")

\* open(path, "rb"): a file object that reads the file's content.
OpenRb(disk, p) == Val("file object", disk[p].content, <<>>)

\* One entry of the mapping: key -> (filename, data, content_type).
Entry(key, filename, data, content_type) ==
    [key |-> key, filename |-> filename, data |-> data, content_type |-> content_type]

\* d[key] = triple on an insertion-ordered dict: a new key goes last, an
\* existing key keeps its place.
DictSet(d, key, filename, data, content_type) ==
    IF \E i \in 1..Len(d) : d[i].key = key
    THEN [i \in 1..Len(d) |->
            IF d[i].key = key THEN Entry(key, filename, data, content_type) ELSE d[i]]
    ELSE Append(d, Entry(key, filename, data, content_type))

\* The returned mapping.
Mapping(d) == [exc |-> "none", value |-> d]

\* A builder that takes every value as it comes.
Supported_Any(v) == TRUE

\* The isinstance tests: the kinds the builder encodes.
Supported(v) ==
    v.kind \in {"str", "bytes", "int", "float", "bool", "list", "tuple", "dict"}

\* The data of a field's triple: a scalar as it is, a list or tuple as its
\* elements' str() joined with ",", a dict as its JSON text.
EncodeValue(v) ==
    IF v.kind \in {"list", "tuple"}
    THEN Str(Join([i \in 1..Len(v.items) |-> str(v.items[i])], ","))
    ELSE IF v.kind = "dict" THEN Str(json_dumps(v))
    ELSE v

\* The loop over the fields: the mapping so far is d.
RECURSIVE EncodeFields(_, _)
EncodeFields(kwargs, d) ==
    IF kwargs = <<>> THEN Mapping(d)
    ELSE IF Supported(Head(kwargs).value)
    THEN EncodeFields(Tail(kwargs),
                      DictSet(d, Head(kwargs).name, None,
                              EncodeValue(Head(kwargs).value), "text/plain"))
    ELSE Raised("ValueError", <<"Unsupported type: ", TypeName(Head(kwargs).value)>>)

\* After the fields: the file, if a path was given.
AttachFile(disk, filepath, d) ==
    IF filepath = Absent THEN Mapping(d)
    ELSE IF is_dir(disk, filepath)
    THEN Raised("ValueError", <<"Directory uploads are not supported">>)
    ELSE IF ~is_file(disk, filepath)
    THEN Raised("FileNotFoundError", <<"Could not locate file at ", PathStr(filepath)>>)
    ELSE Mapping(DictSet(d, "file", Name(filepath), OpenRb(disk, filepath), None))

\* A builder that looks at the path before it looks at the fields.
generate_multipart_json_PathFirst(disk, filepath, kwargs) ==
    IF AttachFile(disk, filepath, <<>>).exc # "none"
    THEN AttachFile(disk, filepath, <<>>)
    ELSE IF EncodeFields(kwargs, <<>>).exc # "none" THEN EncodeFields(kwargs, <<>>)
    ELSE AttachFile(disk, filepath, EncodeFields(kwargs, <<>>).value)

\* generate_multipart_json(filepath, **kwargs)
generate_multipart_json(disk, filepath, kwargs) ==
    IF EncodeFields(kwargs, <<>>).exc # "none" THEN EncodeFields(kwargs, <<>>)
    ELSE AttachFile(disk, filepath, EncodeFields(kwargs, <<>>).value)

\* The builder call under study runs.
Build ==
    /\ input.op = "generate_multipart_json"
    /\ output = NotCalled
    /\ output' = generate_multipart_json(fs, input.filepath, input.kwargs)
    /\ UNCHANGED <<now, headers, pc, frame, call, issued, io, result, verified, trusted>>
    /\ UNCHANGED <<debug, fs, input, warnings, callback>>

FieldNames == {"tag", "file", "n"}

\* **kwargs: fields with distinct names, in the order given.
Kwargs ==
    {k \in SeqsUpTo([name : FieldNames, value : PyValues], MaxFields) :
        \A i, j \in 1..Len(k) : k[i].name = k[j].name => i = j}

\* A builder call with each path (none, a file, a directory, a missing
\* path) and each set of fields.
InitMultipart ==
    /\ InitFacade
    /\ debug = TRUE
    /\ fs = Disk
    /\ input \in {[op |-> "generate_multipart_json", filepath |-> p, kwargs |-> k] :
                    p \in {Absent, CkptPath, DirPath, MissingPath}, k \in Kwargs}
    /\ output = NotCalled
    /\ warnings = <<>>
    /\ callback = NoCallback

NextMultipart == Build

SpecMultipart == InitMultipart /\ [][NextMultipart]_vars

----------------------------------------------------------------------------
(* The multipart builder: claims *)

\* The builder call has run.
Built == input.op = "generate_multipart_json" /\ output # NotCalled

\* The builder call has returned a mapping.
BuiltMapping == Built /\ output.exc = "none"

Range(seq) == {seq[i] : i \in 1..Len(seq)}

\* The fields whose value is of no kind the builder encodes.
Offending == {i \in 1..Len(input.kwargs) : input.kwargs[i].value \in Others}

\* The field's entry is not replaced by the file's.
Kept(f) == f.name # "file" \/ input.filepath = Absent

\* C14 (as claimed): in the mapping the builder returns, the data of a
\* scalar field is the string str(value), of a list or tuple field the
\* elements' str() joined with ",", of a dict field its JSON text; each with
\* filename None and content type "text/plain".
C14_ScalarsAsStr ==
    BuiltMapping =>
        \A f \in Range(input.kwargs) :
            Kept(f) =>
                \E e \in Range(output.value) :
                    /\ e.key = f.name /\ e.filename = None /\ e.content_type = "text/plain"
                    /\ f.value \in Scalars => e.data = Str(str(f.value))
                    /\ f.value.kind \in {"list", "tuple"} =>
                          e.data = Str(Join([i \in 1..Len(f.value.items) |->
                                                str(f.value.items[i])], ","))
                    /\ f.value.kind = "dict" => e.data = Str(json_dumps(f.value))

\* C15 (as claimed): a field of an unsupported kind makes the builder raise
\* ValueError with a message that names that field and the kind of its
\* value; no mapping is returned.
C15_ErrorNamesFieldAndKind ==
    (Built /\ Offending # {}) =>
        /\ output.exc = "ValueError"
        /\ \E i \in Offending :
              /\ input.kwargs[i].name \in Range(output.msg)
              /\ TypeName(input.kwargs[i].value) \in Range(output.msg)

\* C15 (amended): a field of an unsupported kind makes the builder raise
\* ValueError('Unsupported type: <kind>') for the first such field in the
\* order given, whatever the path and the other fields are; the message
\* names the kind and not the field; no mapping is returned.
C15_ErrorNamesKindOnly ==
    (Built /\ Offending # {}) =>
        LET first == CHOOSE i \in Offending : \A j \in Offending : i <= j
        IN  /\ output = Raised("ValueError",
                               <<"Unsupported type: ", TypeName(input.kwargs[first].value)>>)
            /\ \A f \in Range(input.kwargs) : f.name \notin Range(output.msg)

\* C15 witness: a supported field followed by a field whose value is None,
\* with a file to attach: the builder raised.
C15_Witness ==
    /\ Built /\ input.filepath = CkptPath
    /\ Len(input.kwargs) = 2
    /\ input.kwargs[1].value = Str("x")
    /\ input.kwargs[2].value.kind = "NoneType"
    /\ output.exc = "ValueError"

\* C16 (as claimed): given the path of a regular file the mapping has
\* exactly one entry keyed "file", the triple (base name, open file, None);
\* every other entry has filename None and content type "text/plain"; and
\* the file entry is the last one, whatever the fields are.  Given no path
\* the mapping has no entry with a filename.
C16_FileEntryLast ==
    BuiltMapping =>
        /\ input.filepath # Absent =>
              /\ Cardinality({i \in 1..Len(output.value) : output.value[i].key = "file"}) = 1
              /\ \A e \in Range(output.value) :
                    IF e.key = "file"
                    THEN e = Entry("file", Name(input.filepath),
                                   Val("file object", fs[input.filepath].content, <<>>), None)
                    ELSE e.filename = None /\ e.content_type = "text/plain"
              /\ output.value[Len(output.value)].key = "file"
        /\ input.filepath = Absent =>
              \A e \in Range(output.value) : e.filename = None

\* Every field is of a kind the builder encodes.
AllSupported == Offending = {}

----------------------------------------------------------------------------
(* The handlers that stream a response into a local file *)

\* Where a download is told to go, and the directory it is in.
DestPath == <<"out", "model.bin">>

Parent(p) == SubSeq(p, 1, Len(p) - 1)

Dir == [kind |-> "dir", content |-> ""]

File(content) == [kind |-> "file", content |-> content]

\* disk with entry e at path p.
Put(disk, p, e) == [x \in DOMAIN disk \cup {p} |-> IF x = p THEN e ELSE disk[x]]

\* Before a download: nothing there; the directory only; the directory and
\* an older file; the directory and a directory where the file should go.
DownloadDisks ==
    { NoFiles,
      Put(NoFiles, Parent(DestPath), Dir),
      Put(Put(NoFiles, Parent(DestPath), Dir), DestPath, File("old")),
      Put(Put(NoFiles, Parent(DestPath), Dir), DestPath, Dir) }

\* Content types a server declares, cut after the part before the "/".
OctetStream == <<"application", "/octet-stream">>

ContentTypes == {OctetStream, <<"application", "/json">>, <<"text", "/html">>}

\* What the server does with a streamed request: an answer with a status
\* a declared content type (or none) and a body, whose transfer may break
\* off half way; or no answer.
DownloadResponses ==
    {[exc |-> "none", status |-> st, body |-> "new", cut |-> c, ctype |-> OctetStream] :
        st \in {200, 304, 403, 500}, c \in BOOLEAN}
        \cup {[exc |-> "none", status |-> 200, body |-> "new", cut |-> FALSE, ctype |-> ct] :
                ct \in ContentTypes \cup {Absent}}
        \cup {[exc |-> e, status |-> 0, body |-> "", cut |-> FALSE, ctype |-> Absent] :
                e \in TransportErrors}

\* overwrite=: left out, True or False.
OverwriteArgs == {"default", "True", "False"}

Overwrite(default, given) == IF given = "default" THEN default ELSE given = "True"

\* Path.parent.mkdir(parents=True, exist_ok=True)
mkdir_parents(disk, p) ==
    IF exists(disk, Parent(p)) THEN disk ELSE Put(disk, Parent(p), Dir)

\* What open(p, "wb") raises, "none" if it opens.
OpenWbError(disk, p) ==
    IF ~exists(disk, Parent(p)) THEN "FileNotFoundError"
    ELSE IF is_dir(disk, p) THEN "IsADirectoryError"
    ELSE "none"

\* open(p, "wb"): the file is created, or truncated.
OpenWb(disk, p) == Put(disk, p, File(""))

\* The chunks iter_content yields before it ends or raises, written out.
Received(resp) == IF resp.cut THEN "ne" ELSE resp.body

\* How the loop over iter_content ends.
StreamEnd(resp) ==
    IF resp.cut THEN Raised("ChunkedEncodingError", "") ELSE Returned

\* How a handler call ends: the disk, the requests sent, the result, and
\* the warnings it emitted on the way.
Outcome(disk, reqs, res) ==
    [fs |-> disk, issued |-> reqs, result |-> res, warnings |-> <<>>]

\* The same outcome after warnings.warn(w) for each w of warns.
Warned(o, warns) == [o EXCEPT !.warnings = warns]

\* response.headers.get("Content-Type"): None if the header is missing.
ContentType(resp) == resp.ctype

\* `if response.headers.get("Content-Type") != "application/octet-stream":
\*      warnings.warn(...)`
NotOctetStream(resp) ==
    IF ContentType(resp) # OctetStream
    THEN <<"The response is not an octet stream. An error may have occurred.">>
    ELSE <<>>

\* s.startswith(prefix), on texts cut into pieces.
startswith(s, prefix) == Len(s) >= 1 /\ s[1] = prefix

\* `content_type = response.headers.get("Content-Type", "")
\*  if not content_type.startswith("application"): warnings.warn(...)`
NotApplication(resp) ==
    IF ~startswith(IF ContentType(resp) = Absent THEN <<>> ELSE ContentType(resp),
                   "application")
    THEN <<"Unexpected content type. The response might not be a valid artifact.">>
    ELSE <<>>

\* `with open(p, "wb") as f:` around the request and the writes.
\* warns: what the body warns of once the response is there.
OpenThenRequest(disk, p, req, resp, warns) ==
    IF OpenWbError(disk, p) # "none"
    THEN Outcome(disk, <<>>, Raised(OpenWbError(disk, p), ""))
    ELSE IF _request(resp) # "ok"
    THEN Outcome(OpenWb(disk, p), <<[req EXCEPT !.resp = resp]>>,
                 Raised(_request(resp), ""))
    ELSE Warned(Outcome(Put(disk, p, File(Received(resp))),
                        <<[req EXCEPT !.resp = resp]>>, StreamEnd(resp)),
                warns)

\* The request first, `with open(p, "wb") as f:` around the writes only.
\* The content type is looked at in between.
RequestThenOpen(disk, p, req, resp, warns) ==
    IF _request(resp) # "ok"
    THEN Outcome(disk, <<[req EXCEPT !.resp = resp]>>, Raised(_request(resp), ""))
    ELSE IF OpenWbError(disk, p) # "none"
    THEN Warned(Outcome(disk, <<[req EXCEPT !.resp = resp]>>,
                        Raised(OpenWbError(disk, p), "")),
                warns)
    ELSE Warned(Outcome(Put(disk, p, File(Received(resp))),
                        <<[req EXCEPT !.resp = resp]>>, StreamEnd(resp)),
                warns)

\* A check that lets an existing destination through.
ExistsError_Never(disk, p, overwrite) == FALSE

\* `if path.exists() and not overwrite: raise FileExistsError(...)`
ExistsError(disk, p, overwrite) == exists(disk, p) /\ ~overwrite

AlreadyExists(disk) == Outcome(disk, <<>>, Raised("FileExistsError", ""))

\* CheckpointHandler.download_checkpoint
download_checkpoint(disk, a, h, resp) ==
    IF ExistsError(disk, a.path, Overwrite(TRUE, a.overwrite)) THEN AlreadyExists(disk)
    ELSE OpenThenRequest(mkdir_parents(disk, a.path), a.path,
                         Wire(h, "GET", "/project/file/{checkpoint_id}"), resp,
                         NotOctetStream(resp))

\* CheckpointHandler.download_all_checkpoints
download_all_checkpoints(disk, a, h, resp) ==
    IF ExistsError(disk, a.path, Overwrite(TRUE, a.overwrite)) THEN AlreadyExists(disk)
    ELSE OpenThenRequest(mkdir_parents(disk, a.path), a.path,
                         Wire(h, "GET", "/project/file"), resp,
                         NotOctetStream(resp))

\* StaticHandler.exclude
exclude(disk, a, h, resp) ==
    IF ExistsError(disk, a.path, Overwrite(FALSE, a.overwrite)) THEN AlreadyExists(disk)
    ELSE OpenThenRequest(mkdir_parents(disk, a.path), a.path,
                         Wire(h, "POST", "/edit"), resp, <<>>)

\* StaticHandler.metatune: the two lists are compared first.
metatune(disk, a, h, resp) ==
    IF a.checkpoints_to_tune # a.amplitudes
    THEN Outcome(disk, <<>>,
                 Raised("ValueError",
                        "checkpoints_to_tune and amplitudes must be the same length"))
    ELSE IF ExistsError(disk, a.path, Overwrite(FALSE, a.overwrite))
    THEN AlreadyExists(disk)
    ELSE OpenThenRequest(mkdir_parents(disk, a.path), a.path,
                         Wire(h, "POST", "/metatune"), resp, <<>>)

\* ResultHandler.downloadAnalysisResultArtifact: no mkdir, and the file is
\* opened after the response has arrived.
downloadAnalysisResultArtifact(disk, a, h, resp) ==
    IF ExistsError(disk, a.path, Overwrite(TRUE, a.overwrite)) THEN AlreadyExists(disk)
    ELSE RequestThenOpen(disk, a.path,
                         Wire(h, "GET", "/project/{project_id}/analysis/result/artifact"),
                         resp, NotApplication(resp))

\* Arguments of a download: the destination, overwrite=, and for metatune
\* the lengths of checkpoints_to_tune and amplitudes.
DownloadArgs ==
    [path : {DestPath}, overwrite : OverwriteArgs,
     checkpoints_to_tune : {1, 2}, amplitudes : {2}]

\* A handler call made and finished: what it was, the disk it found, and
\* the outcome.
HandlerStep(t, op, a, r) ==
    /\ pc[t] = "idle"
    /\ call' = [call EXCEPT ![t] = [op |-> op, args |-> a, before |-> fs]]
    /\ issued' = [issued EXCEPT ![t] = r.issued]
    /\ result' = [result EXCEPT ![t] = r.result]
    /\ fs' = r.fs
    /\ warnings' = r.warnings
    /\ io' = [io EXCEPT ![t] = NoIo]
    /\ UNCHANGED <<now, headers, pc, frame, verified, trusted, debug, input, output, callback>>

DownloadCheckpoint(t, a, resp) ==
    HandlerStep(t, "checkpoint.download_checkpoint", a,
                download_checkpoint(fs, a, headers[Session(clientOf(t))], resp))

DownloadAllCheckpoints(t, a, resp) ==
    HandlerStep(t, "checkpoint.download_all_checkpoints", a,
                download_all_checkpoints(fs, a, headers[Session(clientOf(t))], resp))

Exclude(t, a, resp) ==
    HandlerStep(t, "static.exclude", a,
                exclude(fs, a, headers[Session(clientOf(t))], resp))

Metatune(t, a, resp) ==
    HandlerStep(t, "static.metatune", a,
                metatune(fs, a, headers[Session(clientOf(t))], resp))

DownloadArtifact(t, a, resp) ==
    HandlerStep(t, "result.downloadAnalysisResultArtifact", a,
                downloadAnalysisResultArtifact(fs, a, headers[Session(clientOf(t))], resp))

InitDownload ==
    /\ InitFacade
    /\ debug = TRUE
    /\ fs \in DownloadDisks
    /\ input = NoArg
    /\ output = NotCalled
    /\ warnings = <<>>
    /\ callback = NoCallback

NextDownload ==
    \/ \E a \in DownloadArgs, r \in DownloadResponses : DownloadCheckpoint("a1", a, r)
    \/ \E a \in DownloadArgs, r \in DownloadResponses : DownloadAllCheckpoints("a1", a, r)
    \/ \E a \in DownloadArgs, r \in DownloadResponses : Exclude("a1", a, r)
    \/ \E a \in DownloadArgs, r \in DownloadResponses : Metatune("a1", a, r)
    \/ \E a \in DownloadArgs, r \in DownloadResponses : DownloadArtifact("a1", a, r)

SpecDownload == InitDownload /\ [][NextDownload]_vars

----------------------------------------------------------------------------
(* Downloads: claims *)

\* The handlers that open the destination before they send the request.
OpenFirstOps ==
    {"checkpoint.download_checkpoint", "checkpoint.download_all_checkpoints",
     "static.exclude", "static.metatune"}

DownloadOps == OpenFirstOps \cup {"result.downloadAnalysisResultArtifact"}

\* A finished download call.
DownloadDone(t) == pc[t] = "idle" /\ call[t].op \in DownloadOps

\* overwrite as the call has it: exclude and metatune default to False.
OverwriteOf(t) ==
    Overwrite(call[t].op \notin {"static.exclude", "static.metatune"},
              call[t].args.overwrite)

\* The destination existed when the call was made, and overwrite is false.
Guarded(t) == exists(call[t].before, call[t].args.path) /\ ~OverwriteOf(t)

\* metatune was given lists of different lengths.
LengthsDiffer(t) ==
    /\ call[t].op = "static.metatune"
    /\ call[t].args.checkpoints_to_tune # call[t].args.amplitudes

\* The destination holds what the server sent.
HoldsDownload(t) ==
    /\ Len(issued[t]) = 1
    /\ is_file(fs, call[t].args.path)
    /\ fs[call[t].args.path].content = issued[t][1].resp.body

Answered200(t) == Len(issued[t]) = 1 /\ _request(issued[t][1].resp) = "ok"

----------------------------------------------------------------------------
(* The handlers that build a request body from named parameters and
   **kwargs *)

PyNone == Val("NoneType", "None", <<>>)

\* types.FileType, ComparisonType, MOEAnalysisType: member -> value.
FileType ==
    [ONNX |-> "ONNX", KERAS |-> "KERAS", HF_TEXT |-> "HF_TEXT_GENERATION",
     HF_IT2T |-> "HF_IMAGE_TEXT_TO_TEXT"]

ComparisonType == [LATEST |-> "LATEST", CHOSEN |-> "CHOSEN"]

MOEAnalysisType == [EXPERT |-> "EXPERT", ROUTER |-> "ROUTER"]

\* The enumeration static_analysis converts `comparison` with.  types.py
\* does not define it; its members are those the method's signature and
\* docstring name.
Comparison == [PREVIOUS |-> "PREVIOUS", ALL |-> "ALL"]

\* A member of an enumeration class, as a value: FileType.HF_TEXT is
\* MemberOf("FileType", FileType, "HF_TEXT").
MemberOf(class, enum, m) == Val(class, enum[m], <<>>)

\* Enum(x) raises ValueError: x is neither a member of the class nor the
\* value of one.
EnumError(class, enum, x) ==
    ~(x.kind = class \/ (x.kind = "str" /\ \E m \in DOMAIN enum : enum[m] = x.text))

\* Enum(x).value
EnumValue(x) == Str(x.text)

Field(name, value) == [name |-> name, value |-> value]

\* data[name] = value
SetField(d, name, value) ==
    IF \E i \in 1..Len(d) : d[i].name = name
    THEN [i \in 1..Len(d) |-> IF d[i].name = name THEN Field(name, value) ELSE d[i]]
    ELSE Append(d, Field(name, value))

\* data.update(kwargs)
RECURSIVE Update(_, _)
Update(d, kwargs) ==
    IF kwargs = <<>> THEN d
    ELSE Update(SetField(d, Head(kwargs).name, Head(kwargs).value), Tail(kwargs))

\* `if value is not None: data[name] = value`
SetIfGiven(d, name, value) == IF value # PyNone THEN SetField(d, name, value) ELSE d

\* The request with a multipart body.
WireFiles(h, method, route, files) ==
    [method |-> method, route |-> route,
     auth |-> Get(h, "Authorization"), resp |-> Pending, files |-> files]

\* The call raises before it reaches the client.
Fail(disk, exc, msg) == Outcome(disk, <<>>, Raised(exc, msg))

\* How a call that is one request ends.
Sent(disk, req, resp) ==
    Outcome(disk, <<[req EXCEPT !.resp = resp]>>,
            IF _request(resp) = "ok" THEN Returned ELSE Raised(_request(resp), ""))

\* verb(route, files=generate_multipart_json(path, **data)): the argument
\* is evaluated, and so the builder runs, before the verb method is called.
SendFiles(disk, h, method, route, path, data, resp) ==
    IF generate_multipart_json(disk, path, data).exc # "none"
    THEN Fail(disk, generate_multipart_json(disk, path, data).exc,
              Join(generate_multipart_json(disk, path, data).msg, ""))
    ELSE Sent(disk, WireFiles(h, method, route,
                              generate_multipart_json(disk, path, data).value), resp)

\* verb(route, json=data)
SendJson(disk, h, method, route, data, resp) ==
    Sent(disk, WireJson(h, method, route, data), resp)

\* add_checkpoint with the format looked up only after the POST has gone
\* out.
add_checkpoint_PostFirst(disk, a, h, resp) ==
    IF is_dir(disk, a.file_path) THEN Fail(disk, "ValueError", "is a directory")
    ELSE IF ~is_file(disk, a.file_path) THEN Fail(disk, "FileNotFoundError", "not found")
    ELSE LET sent ==
                SendFiles(disk, h, "POST", "/project/file", a.file_path,
                    SetIfGiven(SetIfGiven(
                        Update(<<Field("projectId", a.project_id),
                                 Field("format", EnumValue(a.model_format))>>,
                               a.kwargs),
                        "fileName", a.checkpoint_name),
                        "tag", a.tag),
                    resp)
         IN  IF EnumError("FileType", FileType, a.model_format)
             THEN Outcome(disk, sent.issued, Raised("ValueError", "is not a valid FileType"))
             ELSE sent

\* CheckpointHandler.add_checkpoint: the path checks, the format, the
\* merge of **kwargs, then fileName and tag, then the POST.
add_checkpoint(disk, a, h, resp) ==
    IF is_dir(disk, a.file_path) THEN Fail(disk, "ValueError", "is a directory")
    ELSE IF ~is_file(disk, a.file_path) THEN Fail(disk, "FileNotFoundError", "not found")
    ELSE IF EnumError("FileType", FileType, a.model_format)
    THEN Fail(disk, "ValueError", "is not a valid FileType")
    ELSE SendFiles(disk, h, "POST", "/project/file", a.file_path,
            SetIfGiven(SetIfGiven(
                Update(<<Field("projectId", a.project_id),
                         Field("format", EnumValue(a.model_format))>>,
                       a.kwargs),
                "fileName", a.checkpoint_name),
                "tag", a.tag),
            resp)

\* `file_name or file_path.rsplit("/", 1)[-1]`
FileNameOr(file_name, file_path) ==
    IF file_name # PyNone /\ file_name.text # "" THEN file_name ELSE Str(Name(file_path))

\* CheckpointHandler.add_external_checkpoint: file_path is a path in the
\* bucket, not a local file.
add_external_checkpoint(disk, a, h, resp) ==
    IF EnumError("FileType", FileType, a.model_format)
    THEN Fail(disk, "ValueError", "is not a valid FileType")
    ELSE SendJson(disk, h, "POST", "/project/file/external",
            SetIfGiven(
                Update(<<Field("projectId", a.project_id),
                         Field("filePath", Str(PathStr(a.file_path))),
                         Field("format", EnumValue(a.model_format)),
                         Field("fileName", FileNameOr(a.file_name, a.file_path))>>,
                       a.kwargs),
                "tag", a.tag),
            resp)

\* update_checkpoint without the test of checkpoint_name.
update_checkpoint_NoNameCheck(disk, a, h, resp) ==
    IF a.file_path # Absent /\ a.model_format = PyNone
    THEN Fail(disk, "ValueError", "model_format is required if file_path is provided")
    ELSE IF a.model_format # PyNone /\ EnumError("FileType", FileType, a.model_format)
    THEN Fail(disk, "ValueError", "is not a valid FileType")
    ELSE SendFiles(disk, h, "PATCH", "/project/file", a.file_path,
            Update(SetIfGiven(SetIfGiven(SetIfGiven(
                       <<Field("projectId", a.project_id), Field("fileId", a.checkpoint_id)>>,
                       "fileName", a.checkpoint_name),
                       "tag", a.tag),
                       "format", IF a.model_format # PyNone THEN EnumValue(a.model_format)
                                 ELSE PyNone),
                   a.kwargs),
            resp)

\* CheckpointHandler.update_checkpoint
update_checkpoint(disk, a, h, resp) ==
    IF a.file_path # Absent /\ a.model_format = PyNone
    THEN Fail(disk, "ValueError", "model_format is required if file_path is provided")
    ELSE IF a.file_path # Absent /\ a.checkpoint_name = PyNone
    THEN Fail(disk, "ValueError", "checkpoint_name is required if file_path is provided")
    ELSE IF a.model_format # PyNone /\ EnumError("FileType", FileType, a.model_format)
    THEN Fail(disk, "ValueError", "is not a valid FileType")
    ELSE SendFiles(disk, h, "PATCH", "/project/file", a.file_path,
            Update(SetIfGiven(SetIfGiven(SetIfGiven(
                       <<Field("projectId", a.project_id), Field("fileId", a.checkpoint_id)>>,
                       "fileName", a.checkpoint_name),
                       "tag", a.tag),
                       "format", IF a.model_format # PyNone THEN EnumValue(a.model_format)
                                 ELSE PyNone),
                   a.kwargs),
            resp)

\* ProjectHandler.update_project: json={"projectId": project_id, **data}
update_project(disk, a, h, resp) ==
    IF a.model_format # PyNone /\ EnumError("FileType", FileType, a.model_format)
    THEN Fail(disk, "ValueError", "is not a valid FileType")
    ELSE SendJson(disk, h, "PATCH", "/project",
            Update(<<Field("projectId", a.project_id)>>,
                   Update(SetIfGiven(SetIfGiven(SetIfGiven(<<>>,
                              "name", a.name),
                              "description", a.description),
                              "format", IF a.model_format # PyNone
                                        THEN EnumValue(a.model_format) ELSE PyNone),
                          a.kwargs)),
            resp)

\* StaticHandler.static_analysis
static_analysis(disk, a, h, resp) ==
    IF EnumError("Comparison", Comparison, a.comparison)
    THEN Fail(disk, "ValueError", "is not a valid Comparison")
    ELSE SendJson(disk, h, "POST", "/static_analysis",
            Update(SetIfGiven(SetIfGiven(
                       <<Field("projectId", a.project_id), Field("fileId", a.checkpoint_id),
                         Field("comparisonType", EnumValue(a.comparison))>>,
                       "weightNames", a.weight_names),
                       "biasNames", a.bias_names),
                   a.kwargs),
            resp)

\* `if isinstance(inference_config, dict): inference_config = json.dumps(...)`
ConfigText(inference_config) ==
    IF inference_config.kind = "dict" THEN Str(json_dumps(inference_config))
    ELSE inference_config

\* DynamicHandler.contribution_analysis
contribution_analysis(disk, a, h, resp) ==
    IF ~exists(disk, a.stimulus_path) THEN Fail(disk, "FileNotFoundError", "not found")
    ELSE IF EnumError("ComparisonType", ComparisonType, a.comparison_type)
    THEN Fail(disk, "ValueError", "is not a valid ComparisonType")
    ELSE SendFiles(disk, h, "POST", "/dynamic_analysis/contribution", a.stimulus_path,
            Update(SetIfGiven(SetIfGiven(
                       <<Field("projectId", a.project_id), Field("fileId", a.checkpoint_id),
                         Field("comparisonType", EnumValue(a.comparison_type))>>,
                       "layerNames", a.layer_names),
                       "inferenceConfigJson", ConfigText(a.inference_config)),
                   a.kwargs),
            resp)

\* DynamicHandler.mixture_of_experts_analysis
mixture_of_experts_analysis(disk, a, h, resp) ==
    IF ~exists(disk, a.stimulus_path) THEN Fail(disk, "FileNotFoundError", "not found")
    ELSE IF EnumError("MOEAnalysisType", MOEAnalysisType, a.analysis_type)
    THEN Fail(disk, "ValueError", "is not a valid MOEAnalysisType")
    ELSE SendFiles(disk, h, "POST", "/dynamic_analysis/moe", a.stimulus_path,
            Update(SetIfGiven(SetIfGiven(
                       <<Field("projectId", a.project_id), Field("fileId", a.checkpoint_id),
                         Field("layerNames", a.layer_names),
                         Field("analysisType", EnumValue(a.analysis_type))>>,
                       "numExperts", a.num_experts),
                       "inferenceConfigJson", ConfigText(a.inference_config)),
                   a.kwargs),
            resp)

\* The server as far as these handlers need it.
BodyResponses == {r \in Responses : r.status \in {0, 200, 500}}

\* Keyword arguments that no parameter takes: they end up in **kwargs, in
\* the order given.  (A keyword that is a parameter's name, such as tag=,
\* binds to the parameter and can never be in **kwargs.)
Extras(keys) ==
    {k \in SeqsUpTo({Field(x, Str("extra")) : x \in keys}, Cardinality(keys)) :
        \A i, j \in 1..Len(k) : k[i].name = k[j].name => i = j}

\* A named string parameter: left out, or given.
Named == {PyNone, Str("named")}

\* model_format=: a value of a member, a member, or the name of a member
\* (which is not the value of one).
Formats == {Str("ONNX"), MemberOf("FileType", FileType, "HF_TEXT"), Str("HF_TEXT")}

LocalPaths == {CkptPath, DirPath, MissingPath}

Names == Val("list", "", <<Str("l1"), Str("l2")>>)

AddCheckpointArgs ==
    [project_id : {Str("p1")}, file_path : LocalPaths, model_format : Formats,
     checkpoint_name : Named, tag : Named, kwargs : Extras({"fileName", "format"})]

AddCheckpoint(t, a, resp) ==
    HandlerStep(t, "checkpoint.add_checkpoint", a,
                add_checkpoint(fs, a, headers[Session(clientOf(t))], resp))

AddExternalCheckpointArgs ==
    [project_id : {Str("p1")}, file_path : {<<"bucket", "ext.onnx">>},
     model_format : Formats, file_name : Named \cup {Str("")}, tag : Named,
     kwargs : Extras({"fileName", "format"})]

AddExternalCheckpoint(t, a, resp) ==
    HandlerStep(t, "checkpoint.add_external_checkpoint", a,
                add_external_checkpoint(fs, a, headers[Session(clientOf(t))], resp))

UpdateCheckpointArgs ==
    [project_id : {Str("p1")}, checkpoint_id : {Str("f1")},
     file_path : LocalPaths \cup {Absent}, model_format : Formats \cup {PyNone},
     checkpoint_name : Named, tag : Named,
     kwargs : Extras({"fileName", "format"}) \cup {<<Field("note", PyNone)>>}]

UpdateCheckpoint(t, a, resp) ==
    HandlerStep(t, "checkpoint.update_checkpoint", a,
                update_checkpoint(fs, a, headers[Session(clientOf(t))], resp))

UpdateProjectArgs ==
    [project_id : {Str("p1")}, name : Named, description : Named,
     model_format : Formats \cup {PyNone}, kwargs : Extras({"format", "projectId"})]

UpdateProject(t, a, resp) ==
    HandlerStep(t, "project.update_project", a,
                update_project(fs, a, headers[Session(clientOf(t))], resp))

StaticAnalysisArgs ==
    [project_id : {Str("p1")}, checkpoint_id : {Str("f1")},
     comparison : {MemberOf("Comparison", Comparison, "PREVIOUS"), Str("ALL"), Str("LATEST")},
     weight_names : {PyNone, Names}, bias_names : {PyNone, Names},
     kwargs : Extras({"weightNames", "comparisonType"})]

StaticAnalysis(t, a, resp) ==
    HandlerStep(t, "static.static_analysis", a,
                static_analysis(fs, a, headers[Session(clientOf(t))], resp))

ContributionAnalysisArgs ==
    [project_id : {Str("p1")}, checkpoint_id : {Str("f1")}, stimulus_path : LocalPaths,
     comparison_type : {MemberOf("ComparisonType", ComparisonType, "CHOSEN"),
                        Str("LATEST"), Str("PREVIOUS")},
     layer_names : {PyNone, Names},
     inference_config : {PyNone, Val("dict", "", <<Str("k"), Val("bool", "True", <<>>)>>)},
     kwargs : Extras({"comparisonType"})]

ContributionAnalysis(t, a, resp) ==
    HandlerStep(t, "dynamic.contribution_analysis", a,
                contribution_analysis(fs, a, headers[Session(clientOf(t))], resp))

MixtureOfExpertsAnalysisArgs ==
    [project_id : {Str("p1")}, checkpoint_id : {Str("f1")}, stimulus_path : LocalPaths,
     layer_names : {Names},
     analysis_type : {MemberOf("MOEAnalysisType", MOEAnalysisType, "EXPERT"),
                      Str("ROUTER"), Str("GATE")},
     num_experts : {PyNone, Val("int", "7", <<>>)}, inference_config : {PyNone},
     kwargs : Extras({"analysisType"})]

MixtureOfExpertsAnalysis(t, a, resp) ==
    HandlerStep(t, "dynamic.mixture_of_experts_analysis", a,
                mixture_of_experts_analysis(fs, a, headers[Session(clientOf(t))], resp))

\* A handler call about to be made.
CallOf(op, a) == [op |-> op, args |-> a]

BodyCalls ==
    {CallOf("checkpoint.add_checkpoint", a) : a \in AddCheckpointArgs}
        \cup {CallOf("checkpoint.add_external_checkpoint", a) : a \in AddExternalCheckpointArgs}
        \cup {CallOf("checkpoint.update_checkpoint", a) : a \in UpdateCheckpointArgs}
        \cup {CallOf("project.update_project", a) : a \in UpdateProjectArgs}
        \cup {CallOf("static.static_analysis", a) : a \in StaticAnalysisArgs}
        \cup {CallOf("dynamic.contribution_analysis", a) : a \in ContributionAnalysisArgs}
        \cup {CallOf("dynamic.mixture_of_experts_analysis", a) :
                a \in MixtureOfExpertsAnalysisArgs}
        \cup {CallOf("static.metatune", a) : a \in DownloadArgs}

\* One client, one thread, a disk with a checkpoint file and a directory,
\* and each call with each choice of arguments.
InitBody ==
    /\ InitFacade
    /\ debug = TRUE
    /\ fs = Disk
    /\ input \in BodyCalls
    /\ output = NotCalled
    /\ warnings = <<>>
    /\ callback = NoCallback

\* The call is made; the server answers, or does not.
NextBody ==
    \/ \E r \in BodyResponses :
        input.op = "checkpoint.add_checkpoint" /\ AddCheckpoint("a1", input.args, r)
    \/ \E r \in BodyResponses :
        input.op = "checkpoint.add_external_checkpoint"
            /\ AddExternalCheckpoint("a1", input.args, r)
    \/ \E r \in BodyResponses :
        input.op = "checkpoint.update_checkpoint" /\ UpdateCheckpoint("a1", input.args, r)
    \/ \E r \in BodyResponses :
        input.op = "project.update_project" /\ UpdateProject("a1", input.args, r)
    \/ \E r \in BodyResponses :
        input.op = "static.static_analysis" /\ StaticAnalysis("a1", input.args, r)
    \/ \E r \in BodyResponses :
        input.op = "dynamic.contribution_analysis"
            /\ ContributionAnalysis("a1", input.args, r)
    \/ \E r \in BodyResponses :
        input.op = "dynamic.mixture_of_experts_analysis"
            /\ MixtureOfExpertsAnalysis("a1", input.args, r)
    \/ \E r \in DownloadResponses :
        input.op = "static.metatune" /\ Metatune("a1", input.args, r)

SpecBody == InitBody /\ [][NextBody]_vars

----------------------------------------------------------------------------
(* Request bodies and local preconditions: claims *)

BodyOps == {c.op : c \in BodyCalls}

\* A finished call of one of these handlers.
BodyDone(t) == pc[t] = "idle" /\ call[t].op \in BodyOps

\* The outgoing key each named parameter is sent under.
OutgoingKey ==
    [checkpoint_name |-> "fileName", file_name |-> "fileName", tag |-> "tag",
     model_format |-> "format", name |-> "name", description |-> "description",
     comparison |-> "comparisonType", weight_names |-> "weightNames",
     bias_names |-> "biasNames", comparison_type |-> "comparisonType",
     layer_names |-> "layerNames", inference_config |-> "inferenceConfigJson",
     analysis_type |-> "analysisType", num_experts |-> "numExperts"]

\* What the request's body holds under key k: a JSON body's value, or the
\* data of a multipart body's entry.
BodyValue(req, k) ==
    IF "json" \in DOMAIN req
    THEN (CHOOSE f \in Range(req.json) : f.name = k).value
    ELSE (CHOOSE e \in Range(req.files) : e.key = k).data

\* C19 (as claimed): whenever a call gives a named optional parameter and
\* **kwargs holds the key that parameter is sent under, the request's body
\* holds the value from **kwargs under that key.
C19_ExtensionBagWins ==
    \A t \in Callers :
        (BodyDone(t) /\ call[t].op # "static.metatune" /\ Len(issued[t]) = 1) =>
            \A p \in DOMAIN call[t].args \cap DOMAIN OutgoingKey :
                \A f \in Range(call[t].args.kwargs) :
                    (call[t].args[p] # PyNone /\ f.name = OutgoingKey[p])
                        => BodyValue(issued[t][1], f.name) = f.value

\* The values of the enumeration a parameter is converted with.
EnumOf ==
    [model_format |-> {"ONNX", "KERAS", "HF_TEXT_GENERATION", "HF_IMAGE_TEXT_TO_TEXT"},
     comparison |-> {"PREVIOUS", "ALL"},
     comparison_type |-> {"LATEST", "CHOSEN"},
     analysis_type |-> {"EXPERT", "ROUTER"}]

\* The call fails a local precondition: a format, comparison mode or
\* analysis kind given as text that is no value of its enumeration;
\* metatune's lists of different lengths; an upload path that is not a
\* regular file (missing, or a directory).
LocalFailure(t) ==
    LET a == call[t].args
    IN  \/ \E p \in DOMAIN a \cap DOMAIN EnumOf :
              a[p].kind = "str" /\ a[p].text \notin EnumOf[p]
        \/ call[t].op = "static.metatune" /\ a.checkpoints_to_tune # a.amplitudes
        \/ /\ call[t].op \in {"checkpoint.add_checkpoint", "checkpoint.update_checkpoint"}
           /\ a.file_path # Absent
           /\ ~is_file(call[t].before, a.file_path)
        \/ /\ "stimulus_path" \in DOMAIN a
           /\ ~is_file(call[t].before, a.stimulus_path)

----------------------------------------------------------------------------
(* update_checkpoint: claims *)

UpdateDone(t) == BodyDone(t) /\ call[t].op = "checkpoint.update_checkpoint"

\* The keys of the fields an update_checkpoint call supplies: the two ids,
\* each named parameter that is given, and the keys of **kwargs.
SuppliedKeys(a) ==
    {"projectId", "fileId"}
        \cup {OutgoingKey[p] : p \in {q \in {"checkpoint_name", "tag", "model_format"} :
                                        a[q] # PyNone}}
        \cup {f.name : f \in Range(a.kwargs)}

\* The first half of C21: replacement content without its format or
\* without its display name is refused before any request.
ContentNeedsFormatAndName(t) ==
    LET a == call[t].args
    IN  (a.file_path # Absent /\ (a.model_format = PyNone \/ a.checkpoint_name = PyNone))
            => issued[t] = <<>> /\ result[t].exc = "ValueError"

\* The second half of C21: one PATCH /project/file, no entry with a file
\* name, and exactly the supplied fields.
MetadataOnlyPatch(t) ==
    /\ Len(issued[t]) = 1
    /\ issued[t][1].method = "PATCH"
    /\ issued[t][1].route = "/project/file"
    /\ \A e \in Range(issued[t][1].files) : e.filename = None
    /\ {e.key : e \in Range(issued[t][1].files)} = SuppliedKeys(call[t].args)

\* C21 (as claimed): update_checkpoint with file_path and without
\* model_format or checkpoint_name fails before any request; every call
\* without file_path issues one PATCH /project/file with no file entry and
\* only the supplied metadata fields.
C21_MetadataOnlyAlwaysPatches ==
    \A t \in Callers :
        UpdateDone(t) =>
            /\ ContentNeedsFormatAndName(t)
            /\ call[t].args.file_path = Absent => MetadataOnlyPatch(t)

\* The supplied values can be sent: the format, if given, is a value or a
\* member of FileType, and every extension value is of a kind the
\* multipart builder encodes.
Sendable(a) ==
    /\ a.model_format = PyNone \/ ~EnumError("FileType", FileType, a.model_format)
    /\ \A f \in Range(a.kwargs) : Supported(f.value)

\* C21 (amended): as claimed, for the calls without file_path whose
\* supplied values can be sent; the others raise ValueError with no
\* request.
C21_MetadataOnlyPatchesWhenSendable ==
    \A t \in Callers :
        UpdateDone(t) =>
            /\ ContentNeedsFormatAndName(t)
            /\ call[t].args.file_path = Absent =>
                  IF Sendable(call[t].args) THEN MetadataOnlyPatch(t)
                  ELSE issued[t] = <<>> /\ result[t].exc = "ValueError"

\* C21 witness: a metadata-only update that gives a tag and no name or
\* format has sent its one PATCH, with the two ids and the tag.
C21_Witness ==
    \E t \in Callers :
        /\ UpdateDone(t)
        /\ call[t].args.file_path = Absent
        /\ call[t].args.tag # PyNone /\ call[t].args.checkpoint_name = PyNone
        /\ call[t].args.model_format = PyNone /\ call[t].args.kwargs = <<>>
        /\ MetadataOnlyPatch(t)
        /\ {e.key : e \in Range(issued[t][1].files)} = {"projectId", "fileId", "tag"}

----------------------------------------------------------------------------
(* Downloads and the declared content type: claims *)

\* The downloads that look at the response's Content-Type.
CheckedOps ==
    {"checkpoint.download_checkpoint", "checkpoint.download_all_checkpoints",
     "result.downloadAnalysisResultArtifact"}

\* The call got a whole 2xx response that does not declare
\* application/octet-stream, and the destination could be opened (the two
\* checkpoint downloads open it before they send the request).
OtherTypeDelivered(t) ==
    /\ DownloadDone(t) /\ call[t].op \in CheckedOps
    /\ Len(issued[t]) = 1
    /\ Is2xx(issued[t][1].resp) /\ ~issued[t][1].resp.cut
    /\ issued[t][1].resp.ctype # OctetStream
    /\ call[t].op = "result.downloadAnalysisResultArtifact"
            => OpenWbError(call[t].before, call[t].args.path) = "none"

\* C22: a content-type-checking download that gets a 2xx response whose
\* declared type is not application/octet-stream emits a warning, raises
\* nothing, and writes every chunk of the response to the destination.
C22_WarnsAndStillWrites ==
    \A t \in Callers :
        OtherTypeDelivered(t) =>
            /\ warnings # <<>>
            /\ result[t] = Returned
            /\ fs[call[t].args.path] = File(issued[t][1].resp.body)

----------------------------------------------------------------------------
(* The CLI login (cli/cli.py) and the token file *)

\* CliSession.BASE_DIR and CliSession.TOKEN_PATH: ~/.authrx/token.json
CliSession_BASE_DIR == <<"~", ".authrx">>

CliSession_TOKEN_PATH == CliSession_BASE_DIR \o <<"token.json">>

\* cli/config.py: platformdirs.user_cache_dir("authrx", "Authentrics.ai"),
\* which is ~/.cache/authrx on Linux (~/Library/Caches/authrx on macOS,
\* ...\Authentrics.ai\authrx\Cache on Windows), and token.json in it.
BASE_DIR == <<"~", ".cache", "authrx">>

TOKEN_PATH == BASE_DIR \o <<"token.json">>

\* Permission bits, as chmod prints them.
OwnerOnly == "0600"

\* The process's umask, and the mode open() creates a file with under it:
\* 0666 & ~umask.
Umasks == {"022", "002", "077"}

CreateMode(umask) ==
    IF umask = "022" THEN "0644" ELSE IF umask = "002" THEN "0664" ELSE OwnerOnly

\* A directory, and a file with its content (the JSON documents in it) and
\* its permission bits.
ModeDir == [kind |-> "dir", content |-> <<>>, mode |-> "0755"]

ModeFile(content, mode) == [kind |-> "file", content |-> content, mode |-> mode]

\* The user's home directory.
Home == Put(NoFiles, <<"~">>, ModeDir)

\* Path.mkdir(parents=True, exist_ok=True) of a directory two or three
\* levels below the home directory: "FileExistsError" if the path is there
\* and is not a directory.
mkdir_p_Error(disk, p) == exists(disk, p) /\ ~is_dir(disk, p)

RECURSIVE mkdir_p(_, _)
mkdir_p(disk, p) ==
    IF exists(disk, p) THEN disk
    ELSE Put(mkdir_p(disk, Parent(p)), p, ModeDir)

\* Importing authentrics_client.cli runs config.py, whose
\* user_cache_dir(..., ensure_exists=True) creates the cache directory.
import_cli(disk) == mkdir_p(disk, BASE_DIR)

\* Path.open("w") under a umask: a new file gets the create mode, an
\* existing file is truncated and keeps its mode.
OpenW(disk, p, umask) ==
    Put(disk, p, ModeFile(<<>>, IF exists(disk, p) THEN disk[p].mode ELSE CreateMode(umask)))

\* json.dump(doc, f) and the close at the end of the with block.
Dump(disk, p, doc) == Put(disk, p, ModeFile(<<doc>>, disk[p].mode))

\* Path.chmod(mode)
Chmod(disk, p, mode) == Put(disk, p, ModeFile(disk[p].content, mode))

\* The `environments` table of the login command.
environments ==
    [dev |-> <<"http://api.dev.authentrics.ai", "/">>,
     uat |-> <<"http://api.uat.authentrics.ai", "/">>,
     prod |-> <<"http://api.authentrics.ai", "/">>]

\* --env values tried: two of the table, and one that is not in it.
EnvNames == {"dev", "prod", "staging"}

\* What the server sends back as the body of a successful login.
LoginBodies == {"T2", "Tbad"}

CliResponses == {r \in Responses : r.status \in {0, 200, 401}}

\* The CliSession object under construction.
CliSession(base_url, username, password) ==
    [exc |-> "none", base_url |-> base_url, username |-> username,
     password |-> password, token |-> None, authrx_token |-> Absent]

\* The CLI process ends: normally, or with the exception it died of.
CliEnds(how) ==
    /\ pc' = [pc EXCEPT !["a1"] = "idle"]
    /\ result' = [result EXCEPT !["a1"] = how]

\* `authrx login --env=... --username=... --password=...` up to the POST of
\* the credentials: the import of the package, the table lookup, and
\* CliSession.__init__ lines 15-25.
CliLogin(env, username, password) ==
    /\ pc["a1"] = "idle"
    /\ call' = [call EXCEPT !["a1"] =
            [op |-> "cli.login", args |-> [env |-> env], before |-> fs]]
    /\ fs' = import_cli(fs)
    /\ IF env \notin DOMAIN environments
       THEN /\ CliEnds(Raised("ValueError", ""))
            /\ issued' = [issued EXCEPT !["a1"] = <<>>]
            /\ output' = NotCalled
       ELSE LET parsed_url == parse_url(environments[env])
            IN  IF \/ AssertFails(debug, parsed_url.path = Absent
                                            \/ parsed_url.path = <<"/">>)
                   \/ AssertFails(debug, parsed_url.query = Absent)
                   \/ AssertFails(debug, parsed_url.fragment = Absent)
                THEN /\ CliEnds(Raised("AssertionError", ""))
                     /\ issued' = [issued EXCEPT !["a1"] = <<>>]
                     /\ output' = NotCalled
                ELSE /\ output' = CliSession(rstrip(Url_url(parsed_url), "/"),
                                             username, password)
                     /\ issued' = [issued EXCEPT !["a1"] =
                            <<WireJson([k \in {} |-> None], "POST", "/api/auth/login",
                                       [username |-> username, password |-> password])>>]
                     /\ pc' = [pc EXCEPT !["a1"] = "cli_post"]
                     /\ UNCHANGED result
    /\ UNCHANGED <<now, headers, frame, io, verified, trusted>>
    /\ UNCHANGED <<debug, input, warnings, callback>>

\* CliSession._post and _login: raise_for_status, then the body is the
\* token, whatever it is.
CliLoginResponse(resp, body) ==
    /\ pc["a1"] = "cli_post"
    /\ IF _request(resp) = "ok"
       THEN /\ issued' = [issued EXCEPT !["a1"] = Answered(@, WithBody(resp, body))]
            /\ output' = [output EXCEPT !.token = body]
            /\ pc' = [pc EXCEPT !["a1"] = "store_mkdir"]
            /\ UNCHANGED result
       ELSE /\ issued' = [issued EXCEPT !["a1"] = Answered(@, resp)]
            /\ CliEnds(Raised(_request(resp), ""))
            /\ UNCHANGED output
    /\ UNCHANGED <<now, headers, frame, call, io, verified, trusted>>
    /\ UNCHANGED <<debug, fs, input, warnings, callback>>

\* _store_token line 43: BASE_DIR.mkdir(parents=True, exist_ok=True)
StoreMkdir ==
    /\ pc["a1"] = "store_mkdir"
    /\ IF mkdir_p_Error(fs, CliSession_BASE_DIR)
       THEN CliEnds(Raised("FileExistsError", "")) /\ UNCHANGED fs
       ELSE /\ fs' = mkdir_p(fs, CliSession_BASE_DIR)
            /\ pc' = [pc EXCEPT !["a1"] = "store_open"]
            /\ UNCHANGED result
    /\ UNCHANGED <<now, headers, frame, call, issued, io, verified, trusted>>
    /\ UNCHANGED <<debug, input, output, warnings, callback>>

\* _store_token line 46: TOKEN_PATH.open("w")
StoreOpen ==
    /\ pc["a1"] = "store_open"
    /\ IF is_dir(fs, CliSession_TOKEN_PATH)
       THEN CliEnds(Raised("IsADirectoryError", "")) /\ UNCHANGED fs
       ELSE /\ fs' = OpenW(fs, CliSession_TOKEN_PATH, input.umask)
            /\ pc' = [pc EXCEPT !["a1"] = "store_dump"]
            /\ UNCHANGED result
    /\ UNCHANGED <<now, headers, frame, call, issued, io, verified, trusted>>
    /\ UNCHANGED <<debug, input, output, warnings, callback>>

\* _store_token line 47 and the end of the with block: the document is
\* written and the file closed.
StoreDump ==
    /\ pc["a1"] = "store_dump"
    /\ fs' = Dump(fs, CliSession_TOKEN_PATH,
                  [token |-> output.token, url |-> output.base_url, COD |-> now])
    /\ pc' = [pc EXCEPT !["a1"] = "store_chmod"]
    /\ UNCHANGED <<now, headers, frame, call, issued, io, result, verified, trusted>>
    /\ UNCHANGED <<debug, input, output, warnings, callback>>

\* _store_token line 50: TOKEN_PATH.chmod(0o600)
StoreChmod(disk) == Chmod(disk, CliSession_TOKEN_PATH, OwnerOnly)

\* The chmod, then __init__ line 27 (os.environ["authrx_token"]), and the
\* command returns.
StoreFinish ==
    /\ pc["a1"] = "store_chmod"
    /\ fs' = StoreChmod(fs)
    /\ output' = [output EXCEPT !.authrx_token = CliSession_TOKEN_PATH]
    /\ CliEnds(Returned)
    /\ UNCHANGED <<now, headers, frame, call, issued, io, verified, trusted>>
    /\ UNCHANGED <<debug, input, warnings, callback>>

----------------------------------------------------------------------------
(* The training callback's authorization check (transformers/callback.py) *)

\* What _check_authorization raises when there is no token file.
LoginRequired == Raised("ValueError", "Login required, use authrx login")

InvalidTokenFile == Raised("ValueError", "Invalid token file, please login again")

ExpiredToken == Raised("ValueError", "Expired token. Please login again")

\* The session _check_token_validity returns, and the requests made for it.
Restored(client, token, reqs) ==
    [exc |-> "none", msg |-> "", issued |-> reqs,
     session |-> [base_url |-> client.base_url, Authorization |-> Bearer(token)]]

\* The callback's constructor did not get its session.
NotRestored(how, reqs) == [exc |-> how.exc, msg |-> how.msg, issued |-> reqs]

\* _check_token_validity(data): AuthentricsClient(data["url"]),
\* auth.login(token=data["token"]) and project.get_projects(); whatever
\* goes wrong becomes ValueError("Expired token. Please login again").
\* user, admin and projects are the server's answers to the two probes and
\* to GET /project, as far as they are asked for.
_check_token_validity(data, dbg, t, user, admin, projects) ==
    LET client == BaseClient_init(data.url, dbg)
        d == decode_token(data.token)
        h == [k \in {"Authorization"} |-> Bearer(data.token)]
        probe_user == [Wire(h, "GET", "/api/auth/user") EXCEPT !.resp = user]
        probe_admin == [Wire(h, "GET", "/api/auth/admin") EXCEPT !.resp = admin]
        get_projects == [Wire(h, "GET", "/project") EXCEPT !.resp = projects]
        probes == IF AfterProbe(_request(user)) = "next"
                  THEN <<probe_user, probe_admin>> ELSE <<probe_user>>
        login_ok == \/ AfterProbe(_request(user)) = "return"
                    \/ /\ AfterProbe(_request(user)) = "next"
                       /\ AfterProbe(_request(admin)) = "return"
    IN  IF client.exc # "none" THEN NotRestored(ExpiredToken, <<>>)
        ELSE IF d.raised \/ "exp" \notin DOMAIN d.payload THEN NotRestored(ExpiredToken, <<>>)
        ELSE IF IsExpired(d.payload, t) THEN NotRestored(ExpiredToken, <<>>)
        ELSE IF ~login_ok THEN NotRestored(ExpiredToken, probes)
        ELSE IF _request(projects) # "ok"
        THEN NotRestored(ExpiredToken, Append(probes, get_projects))
        ELSE Restored(client, data.token, Append(probes, get_projects))

\* `from ..cli import TOKEN_PATH`: the path of cli/config.py.
TokenFile == TOKEN_PATH

\* json.load(file): the document, or JSONDecodeError for an empty file.
json_load(disk, p) ==
    IF disk[p].content = <<>> THEN Raised("JSONDecodeError", "")
    ELSE [exc |-> "none", data |-> disk[p].content[1]]

\* AuthentricsCallback._check_authorization
_check_authorization(disk, dbg, t, user, admin, projects) ==
    IF exists(disk, TokenFile)
    THEN IF is_dir(disk, TokenFile)
         THEN NotRestored(Raised("IsADirectoryError", ""), <<>>)
         ELSE IF json_load(disk, TokenFile).exc # "none"
         THEN NotRestored(json_load(disk, TokenFile), <<>>)
         ELSE IF \/ "token" \notin DOMAIN json_load(disk, TokenFile).data
                 \/ "url" \notin DOMAIN json_load(disk, TokenFile).data
         THEN NotRestored(InvalidTokenFile, <<>>)
         ELSE _check_token_validity(json_load(disk, TokenFile).data, dbg, t,
                                    user, admin, projects)
    ELSE NotRestored(LoginRequired, <<>>)

\* AuthentricsCallback(...) in a training process, as far as line 57: the
\* import of the package, then the authorization check.
CheckAuthorization(user, admin, projects) ==
    /\ fs' = import_cli(fs)
    /\ callback' = _check_authorization(import_cli(fs), debug, now, user, admin, projects)
    /\ UNCHANGED <<now, headers, pc, frame, call, issued, io, result, verified, trusted>>
    /\ UNCHANGED <<debug, input, output, warnings>>

\* Token files a user may have from before: none; one in the cache
\* directory, written by something other than this CLI.
CliDisks ==
    { Home,
      Put(mkdir_p(Home, BASE_DIR), TOKEN_PATH,
          ModeFile(<<[token |-> "T1", url |-> <<"http://api.uat.authentrics.ai">>,
                      COD |-> 0]>>, OwnerOnly)) }

InitCli ==
    /\ InitFacade
    /\ debug = TRUE
    /\ fs \in CliDisks
    /\ input \in {[op |-> "authrx", umask |-> u] : u \in Umasks}
    /\ output = NotCalled
    /\ warnings = <<>>
    /\ callback = NoCallback

NextCli ==
    \/ \E e \in EnvNames : CliLogin(e, "user", "secret")
    \/ \E r \in CliResponses, b \in LoginBodies : CliLoginResponse(r, b)
    \/ StoreMkdir
    \/ StoreOpen
    \/ StoreDump
    \/ StoreFinish
    \/ \E u, a, p \in CliResponses : CheckAuthorization(u, a, p)

SpecCli == InitCli /\ [][NextCli]_vars

----------------------------------------------------------------------------
(* The token file: claims *)

\* C23: whenever the CLI's token file exists and holds a token, its
\* permissions are owner-only read/write.
C23_TokenFileOwnerOnly ==
    (/\ is_file(fs, CliSession_TOKEN_PATH)
     /\ fs[CliSession_TOKEN_PATH].content # <<>>)
        => fs[CliSession_TOKEN_PATH].mode = OwnerOnly

\* The CLI's last login succeeded: the process is over, it returned, and
\* the file it wrote is on disk.
CliLoggedIn ==
    /\ pc["a1"] = "idle" /\ call["a1"].op = "cli.login" /\ result["a1"] = Returned
    /\ output # NotCalled
    /\ is_file(fs, CliSession_TOKEN_PATH)
    /\ fs[CliSession_TOKEN_PATH].content[1].token = output.token

\* C24: a callback constructed after a successful CLI login does not raise
\* "Login required": it reads the url and token the login stored, and when
\* the server accepts that token its session is for that url and token.
C24_CallbackReadsWhatLoginWrote ==
    [][(CliLoggedIn /\ callback' # callback) =>
          /\ callback' # NotRestored(LoginRequired, <<>>)
          /\ \A r \in Range(callback'.issued) : r.auth = Bearer(output.token)
          /\ callback'.exc = "none" =>
                callback'.session = [base_url |-> output.base_url,
                                     Authorization |-> Bearer(output.token)]]_vars

----------------------------------------------------------------------------
(* The training callback's on_save (transformers/callback.py) *)

\* args.output_dir of the training run.
OutputDir == <<"run">>

\* One checkpoint of a project's fileList.
Checkpoint(id) == [id |-> id, fileName |-> id]

\* A project as the server returns it.
Project(ids) == [id |-> "p1", fileList |-> [i \in 1..Len(ids) |-> Checkpoint(ids[i])]]

\* The projects a response can carry: the callback is not the only client
\* of the project, so the list need not be the cached one plus one.
Projects == {Project(ids) : ids \in SeqsUpTo({"f1", "f2"}, MaxFiles)}

\* f"checkpoint-{state.global_step}"
ckpt_dir(global_step) == "checkpoint-" \o ToString(global_step)

\* f"{ckpt_dir}-{len(self.project['fileList']) + 1}"
checkpoint_name(global_step, project) ==
    ckpt_dir(global_step) \o "-" \o ToString(Len(project.fileList) + 1)

\* output_dir / f"{checkpoint_name}.tar"
tar_path(name) == OutputDir \o <<name \o ".tar">>

\* _tar_directory: tarfile.open(tar_filename, "w") creates the archive,
\* tar.add(directory) fills it, or raises if the directory is not there.
_tar_directory(disk, directory, tar_filename) ==
    IF exists(disk, directory)
    THEN [exc |-> "none", fs |-> Put(disk, tar_filename, File("tar of " \o Name(directory)))]
    ELSE [exc |-> "FileNotFoundError", fs |-> Put(disk, tar_filename, File(""))]

\* The headers of the callback's session.
SessionHeaders(cb) == [k \in {"Authorization"} |-> cb.session.Authorization]

\* The arguments of the add_checkpoint call at lines 141-146.
UploadArgs(cb, name) ==
    [project_id |-> Str(cb.project.id), file_path |-> tar_path(name),
     model_format |-> cb.model_format, checkpoint_name |-> Str(name),
     tag |-> PyNone, kwargs |-> <<>>]

\* A test that takes only the empty project for a first checkpoint.
FirstCheckpoint_Empty(files) == Len(files) < 1

\* `if len(files) < 2: ... return`
FirstCheckpoint(files) == Len(files) < 2

\* The analysis of the oldest checkpoint.
Latest_First(files) == files[1]

\* files[-1]
Latest(files) == files[Len(files)]

\* The arguments of the static_analysis call at lines 114-118.
AnalysisArgs(project) ==
    [project_id |-> Str(project.id),
     checkpoint_id |-> Str(Latest(project.fileList).id),
     comparison |-> Str("PREVIOUS"), weight_names |-> PyNone, bias_names |-> PyNone,
     kwargs |-> <<>>]

\* on_save raises: the event is over.
SaveEnds(how) ==
    /\ pc' = [pc EXCEPT !["a1"] = "idle"]
    /\ result' = [result EXCEPT !["a1"] = how]

\* The trainer has written checkpoint-<global_step> and fires on_save:
\* _add_checkpoint up to the POST of add_checkpoint.
OnSave ==
    /\ pc["a1"] = "idle"
    /\ callback.exc = "none"
    /\ callback.global_step < MaxStep
    /\ LET step == callback.global_step + 1
           name == checkpoint_name(step, callback.project)
           saved == Put(fs, OutputDir \o <<ckpt_dir(step)>>, Dir)
           tar == _tar_directory(saved, OutputDir \o <<ckpt_dir(step)>>, tar_path(name))
           upload == add_checkpoint(tar.fs, UploadArgs(callback, name),
                                    SessionHeaders(callback), Pending)
       IN  /\ callback' = [callback EXCEPT !.global_step = step]
           /\ call' = [call EXCEPT !["a1"] =
                  [op |-> "callback.on_save", args |-> [global_step |-> step],
                   before |-> fs, project |-> callback.project]]
           /\ fs' = tar.fs
           /\ IF tar.exc # "none"
              THEN /\ SaveEnds(Raised(tar.exc, ""))
                   /\ issued' = [issued EXCEPT !["a1"] = <<>>]
              ELSE IF upload.issued = <<>>
              THEN /\ SaveEnds(upload.result)
                   /\ issued' = [issued EXCEPT !["a1"] = <<>>]
              ELSE /\ issued' = [issued EXCEPT !["a1"] = upload.issued]
                   /\ pc' = [pc EXCEPT !["a1"] = "save_upload"]
                   /\ UNCHANGED result
    /\ UNCHANGED <<now, headers, frame, io, verified, trusted>>
    /\ UNCHANGED <<debug, input, output, warnings>>

\* The answer to the upload: an error propagates out of on_save; otherwise
\* the returned project replaces self.project, and unless it is the
\* project's first checkpoint the static analysis is requested.
UploadResponse(resp, project) ==
    /\ pc["a1"] = "save_upload"
    /\ IF _request(resp) # "ok"
       THEN /\ issued' = [issued EXCEPT !["a1"] = Answered(@, resp)]
            /\ SaveEnds(Raised(_request(resp), ""))
            /\ UNCHANGED callback
       ELSE /\ callback' = [callback EXCEPT !.project = project]
            /\ IF FirstCheckpoint(project.fileList)
               THEN /\ issued' = [issued EXCEPT !["a1"] =
                           Answered(@, WithBody(resp, project))]
                    /\ SaveEnds(Returned)
               ELSE /\ issued' = [issued EXCEPT !["a1"] =
                           Answered(@, WithBody(resp, project))
                               \o static_analysis(fs, AnalysisArgs(project),
                                                  SessionHeaders(callback), Pending).issued]
                    /\ pc' = [pc EXCEPT !["a1"] = "save_static"]
                    /\ UNCHANGED result
    /\ UNCHANGED <<now, headers, frame, call, io, verified, trusted>>
    /\ UNCHANGED <<debug, fs, input, output, warnings>>

\* _save_stats: the analysis goes to
\* <output_dir>/<project_name>/static_analysis_<checkpoint_name>.json
_save_stats(disk, name) ==
    Put(Put(disk, OutputDir \o <<"proj">>, Dir),
        OutputDir \o <<"proj", "static_analysis_" \o name \o ".json">>,
        File("analysis"))

\* The answer to the static analysis: an error propagates; otherwise the
\* scores are logged and, if asked for, saved.
AnalysisResponse(resp) ==
    /\ pc["a1"] = "save_static"
    /\ issued' = [issued EXCEPT !["a1"] = Answered(@, resp)]
    /\ IF _request(resp) # "ok"
       THEN SaveEnds(Raised(_request(resp), "")) /\ UNCHANGED fs
       ELSE /\ SaveEnds(Returned)
            /\ fs' = IF callback.save_stats_local
                     THEN _save_stats(fs, checkpoint_name(call["a1"].args.global_step,
                                                          call["a1"].project))
                     ELSE fs
    /\ UNCHANGED <<now, headers, frame, call, io, verified, trusted>>
    /\ UNCHANGED <<debug, input, output, warnings, callback>>

\* A constructed callback: its session, the project it found or created,
\* and the trainer's step counter.
Callback(project, save_stats_local) ==
    [exc |-> "none", msg |-> "", issued |-> <<>>,
     session |-> [base_url |-> <<"http://api.dev.authentrics.ai">>,
                  Authorization |-> Bearer("T2")],
     project |-> project, model_format |-> Str("ONNX"),
     save_stats_local |-> save_stats_local, global_step |-> 0]

\* Training starts with a project that is new, or that has checkpoints.
InitCallback ==
    /\ InitFacade
    /\ debug = TRUE
    /\ fs = Put(NoFiles, OutputDir, Dir)
    /\ input = NoArg
    /\ output = NotCalled
    /\ warnings = <<>>
    /\ callback \in {Callback(p, b) : p \in {q \in Projects : Len(q.fileList) <= 2},
                                      b \in BOOLEAN}

NextCallback ==
    \/ OnSave
    \/ \E r \in BodyResponses, p \in Projects : UploadResponse(r, p)
    \/ \E r \in BodyResponses : AnalysisResponse(r)

SpecCallback == InitCallback /\ [][NextCallback]_vars

----------------------------------------------------------------------------
(* on_save: claims *)

\* A save event that has run to its end.
SaveDone == pc["a1"] = "idle" /\ call["a1"].op = "callback.on_save"

\* The requests of the save event in progress, or of the last one.
IsUpload(req) == req.method = "POST" /\ req.route = "/project/file"

IsAnalysis(req) == req.method = "POST" /\ req.route = "/static_analysis"

\* The upload of the event came back with a project.
UploadReturned ==
    /\ Len(issued["a1"]) >= 1
    /\ _request(issued["a1"][1].resp) = "ok"
    /\ "body" \in DOMAIN issued["a1"][1].resp

\* The project that upload returned.
ReturnedProject == issued["a1"][1].resp.body

\* C25 (as claimed): every save event, the first of a project included,
\* calls the upload and then the static analysis.
C25_UploadThenAnalysisAlways ==
    (SaveDone /\ UploadReturned) =>
        /\ Len(issued["a1"]) = 2
        /\ IsUpload(issued["a1"][1])
        /\ IsAnalysis(issued["a1"][2])

\* C25 (amended): every save event calls the upload first; the static
\* analysis follows it exactly when the upload returned a project that
\* lists at least two checkpoints; nothing else is requested.
C25_UploadThenAnalysisFromSecond ==
    SaveDone =>
        /\ Len(issued["a1"]) \in {1, 2}
        /\ IsUpload(issued["a1"][1])
        /\ Len(issued["a1"]) = 2 <=>
              (UploadReturned /\ Len(ReturnedProject.fileList) >= 2)
        /\ Len(issued["a1"]) = 2 => IsAnalysis(issued["a1"][2])

\* C25 witness: the second save of a run, made when the project listed one
\* checkpoint, has ended after the upload and then the static analysis.
C25_Witness ==
    /\ SaveDone
    /\ call["a1"].args.global_step = 2
    /\ Len(call["a1"].project.fileList) = 1
    /\ Len(issued["a1"]) = 2
    /\ IsUpload(issued["a1"][1]) /\ IsAnalysis(issued["a1"][2])
    /\ result["a1"] = Returned

\* C30: in a save event the static analysis is requested only after the
\* event's upload has returned, only if the returned project lists at
\* least two checkpoints, and for the last checkpoint of that list; and
\* the upload sends the name checkpoint-<step>-<k>, k one more than the
\* number of checkpoints the callback's project listed before the upload.
C30_AnalysisAfterUploadOfLatest ==
    call["a1"].op = "callback.on_save" =>
        /\ \A i \in 1..Len(issued["a1"]) :
              IsAnalysis(issued["a1"][i]) =>
                  /\ i = 2 /\ IsUpload(issued["a1"][1])
                  /\ UploadReturned
                  /\ Len(ReturnedProject.fileList) >= 2
                  /\ BodyValue(issued["a1"][i], "fileId")
                        = Str(ReturnedProject.fileList[Len(ReturnedProject.fileList)].id)
        /\ \A i \in 1..Len(issued["a1"]) :
              IsUpload(issued["a1"][i]) =>
                  BodyValue(issued["a1"][i], "fileName")
                      = Str("checkpoint-" \o ToString(call["a1"].args.global_step) \o "-"
                                \o ToString(Len(call["a1"].project.fileList) + 1))

\* C30 witness: the analysis of a save event is on the wire, for "f2", the
\* last of the three checkpoints the upload returned, and not the first.
C30_Witness ==
    /\ pc["a1"] = "save_static"
    /\ Len(issued["a1"]) = 2
    /\ ReturnedProject = Project(<<"f1", "f1", "f2">>)
    /\ BodyValue(issued["a1"][2], "fileId") = Str("f2")
    /\ BodyValue(issued["a1"][1], "fileName") = Str("checkpoint-1-1")

----------------------------------------------------------------------------
(* Two threads on one facade client *)

\* login(token=...) as one thread among several runs it: lines 78-82, up to
\* the read of the old header.  Another thread may run between this and
\* the installation of the new header.
LoginReadOld(t, token) ==
    LET d == decode_token(token)
        s == Session(clientOf(t))
    IN  /\ pc[t] = "idle"
        /\ TokenGiven(token)
        /\ call' = [call EXCEPT ![t] =
                [op |-> "login", token |-> token, username |-> None, password |-> None,
                 env |-> EnvUnset, h0 |-> Get(headers[s], "Authorization"), at |-> now]]
        /\ io' = [io EXCEPT ![t] = NoIo]
        /\ issued' = [issued EXCEPT ![t] = <<>>]
        /\ IF d.raised
           THEN Finish(t, Raised("ValueError", "Invalid token: not decodable"))
           ELSE IF "exp" \notin DOMAIN d.payload
           THEN Finish(t, Raised("KeyError", "exp"))
           ELSE IF IsExpired(d.payload, now)
           THEN Finish(t, Raised("ValueError", "Token has expired"))
           ELSE /\ frame' = [frame EXCEPT ![t] =
                       [token |-> token,
                        old_authorization |-> Get(headers[s], "Authorization")]]
                /\ pc' = [pc EXCEPT ![t] = "install"]
                /\ UNCHANGED result
        /\ UNCHANGED <<now, headers, verified, trusted>>
        /\ UNCHANGED local

\* An installation put off until a probe has succeeded.
Installed_AfterProbe(h, token) == h

\* Line 83: self._session.headers["Authorization"] = f"Bearer {token}"
Installed(h, token) == Set(h, "Authorization", Bearer(token))

LoginInstall(t) ==
    LET s == Session(clientOf(t))
    IN  /\ pc[t] = "install"
        /\ headers' = [headers EXCEPT ![s] = Installed(@, frame[t].token)]
        /\ trusted' = [trusted EXCEPT ![clientOf(t)] = None]
        /\ pc' = [pc EXCEPT ![t] = "send_probe"]
        /\ UNCHANGED <<now, frame, call, issued, io, result, verified>>
        /\ UNCHANGED local

\* Line 87: the user probe goes out with the headers the session has then.
LoginSendProbe(t) ==
    /\ pc[t] = "send_probe"
    /\ issued' = [issued EXCEPT ![t] =
            Append(@, Wire(headers[Session(clientOf(t))], "GET", "/api/auth/user"))]
    /\ pc' = [pc EXCEPT ![t] = "probe_user"]
    /\ UNCHANGED <<now, headers, frame, call, io, result, verified, trusted>>
    /\ UNCHANGED local

\* The header the client had before any thread touched it.
OldHeaders == {None, "Bearer T0"}

\* Two threads share client A, which may hold a header from an earlier
\* login.
InitThreads ==
    /\ now = 1
    /\ input \in {[op |-> "threads", h0 |-> h] : h \in OldHeaders}
    /\ headers = [s \in {Session(c) : c \in Clients} |->
                     IF s = Session("A") /\ input.h0 # None
                     THEN [k \in {"clientName", "Authorization"} |->
                              IF k = "Authorization" THEN input.h0 ELSE "authrx-client"]
                     ELSE [k \in {"clientName"} |-> "authrx-client"]]
    /\ pc = [t \in Callers |-> "idle"]
    /\ frame = [t \in Callers |-> NoFrame]
    /\ call = [t \in Callers |-> NoCall]
    /\ issued = [t \in Callers |-> <<>>]
    /\ io = [t \in Callers |-> NoIo]
    /\ result = [t \in Callers |-> Returned]
    /\ verified = [c \in Clients |-> {}]
    /\ trusted = [c \in Clients |-> None]
    /\ debug = TRUE
    /\ fs = NoFiles
    /\ output = NotCalled
    /\ warnings = <<>>
    /\ callback = NoCallback

\* The steps of a login(token=...) by thread t, made once.
LoginOnce(t, token) ==
    \/ call[t] = NoCall /\ LoginReadOld(t, token)
    \/ LoginInstall(t)
    \/ LoginSendProbe(t)
    \/ \E r \in TwoResponses : ProbeUserResponse(t, r)
    \/ \E r \in TwoResponses : ProbeAdminResponse(t, r)

\* Thread a1 logs in with a token while thread a2 makes handler requests.
NextInterleave ==
    \/ \E k \in {"T1", "T2"} : LoginOnce("a1", k)
    \/ \E o \in TwoOps, r \in TwoResponses : HandlerCall("a2", o, r)

SpecInterleave == InitThreads /\ [][NextInterleave]_vars

\* Threads a1 and a2 each log in with their token.
NextLogins ==
    \/ LoginOnce("a1", TokenFor("a1"))
    \/ LoginOnce("a2", TokenFor("a2"))

SpecLogins == InitThreads /\ [][NextLogins]_vars

----------------------------------------------------------------------------
(* Two threads on one facade client: claims *)

\* The login's probe is out: the header is installed and the login has not
\* returned.
Probing(t) == pc[t] \in {"probe_user", "probe_admin"}

\* C26: a handler request made by another thread while a login(token=T)
\* waits for a probe is sent with "Bearer T".
C26_RequestCarriesUnverifiedToken ==
    [][(Probing("a1") /\ issued'["a2"] # issued["a2"])
          => issued'["a2"][1].auth = Bearer(frame["a1"].token)]_vars

\* C26 witness: the login has ended with both probes rejected and its
\* token rolled back, no probe of the token ever succeeded, and the other
\* thread's request went out with that token.
C26_Witness ==
    /\ pc["a1"] = "idle" /\ call["a1"].op = "login"
    /\ BothProbesRejected("a1")
    /\ result["a1"] = Raised("ValueError", "Invalid token")
    /\ Auth("A") = input.h0
    /\ call["a1"].token \notin verified["A"]
    /\ Len(issued["a2"]) = 1
    /\ issued["a2"][1].auth = Bearer(call["a1"].token)

\* Both logins are over.
BothDone == \A t \in {"a1", "a2"} : pc[t] = "idle" /\ call[t].op = "login"

\* C27 (as claimed): after two interleaved login(token=...) calls the
\* header is the one from before both, or "Bearer T" for a call whose own
\* probe succeeded.
C27_OldOrVerifiedToken ==
    BothDone =>
        \/ Auth("A") = input.h0
        \/ \E t \in {"a1", "a2"} :
              Auth("A") = Bearer(call[t].token) /\ result[t] = Returned

\* C27 (amended): ... or the token a failed call found installed when it
\* started and put back in its rollback, or the token of a call whose
\* probe raised something other than HTTPError and which is left installed.
C27_OldVerifiedOrReinstalled ==
    BothDone =>
        \/ Auth("A") = input.h0
        \/ \E t \in {"a1", "a2"} :
              Auth("A") = Bearer(call[t].token) /\ result[t] = Returned
        \/ \E t, u \in {"a1", "a2"} :
              /\ t # u
              /\ Auth("A") = Bearer(call[u].token)
              /\ result[t] = Raised("ValueError", "Invalid token")
              /\ call[t].h0 = Bearer(call[u].token)
        \/ \E t \in {"a1", "a2"} :
              Auth("A") = Bearer(call[t].token) /\ result[t].exc \in TransportErrors

\* C27 witness: both logins failed with both probes rejected, and the
\* header is the first thread's token, which the second thread's rollback
\* put back.
C27_Witness ==
    /\ BothDone
    /\ \A t \in {"a1", "a2"} : result[t] = Raised("ValueError", "Invalid token")
    /\ Auth("A") = Bearer(call["a1"].token)
    /\ call["a2"].h0 = Bearer(call["a1"].token)

----------------------------------------------------------------------------
(* login without a token: a rejected POST *)

\* A login without a token is over and its POST was answered with an HTTP
\* error status.
PostRejected(t) ==
    /\ pc[t] = "idle" /\ call[t].op = "login" /\ call[t].token = None
    /\ Len(issued[t]) >= 1
    /\ IsLoginPost(issued[t][1])
    /\ Rejected(issued[t][1].resp)

\* C28: when the POST of a login without a token is answered with an HTTP
\* error status, login raises HTTPError, the POST is the only request it
\* issued, and the Authorization header is the one from before the call.
C28_RejectedPostKeepsSession ==
    PostRejected("a1") =>
        /\ result["a1"] = Raised("HTTPError", "")
        /\ Len(issued["a1"]) = 1
        /\ Auth("A") = call["a1"].h0

\* C28 witness: a session authenticated with a token has a later login
\* without a token rejected, and still carries the old token.
C28_Witness ==
    /\ PostRejected("a1")
    /\ call["a1"].h0 # None
    /\ Auth("A") = call["a1"].h0
    /\ trusted["A"] # None
    /\ Auth("A") = Bearer(trusted["A"])

----------------------------------------------------------------------------
(* Downloads: a request that fails *)

\* A download sent its request and the server answered with an HTTP error
\* status.
DownloadRejected(t) ==
    DownloadDone(t) /\ Len(issued[t]) = 1 /\ Rejected(issued[t][1].resp)

\* C29: when the request of a download is answered with an HTTP error
\* status, the destination path is as it was before the call: not created,
\* not truncated, not modified.
C29_FailedRequestLeavesDestination ==
    \A t \in Callers :
        DownloadRejected(t) =>
            /\ exists(fs, call[t].args.path) = exists(call[t].before, call[t].args.path)
            /\ exists(fs, call[t].args.path) =>
                  fs[call[t].args.path] = call[t].before[call[t].args.path]

====
